---- MODULE Spec2Model ----
(***************************************************************************)
(* The form application of rojmer (src/src/app.rs): the entity store, the  *)
(* field editor, the form navigator and the four commit validators, as a   *)
(* state machine driven by key events.                                     *)
(*                                                                         *)
(* A text (Rust String) is a sequence of characters, each a one-character  *)
(* string; positions in a text are BYTE offsets, as in the source, and a   *)
(* character may be wider than one byte (Utf8Len).                         *)
(***************************************************************************)
EXTENDS Integers, Sequences, FiniteSets, TLC

VARIABLES should_quit, menu_state, user_data, input, panicked, last

vars == <<should_quit, menu_state, user_data, input, panicked, last>>

----------------------------------------------------------------------------
(* Bounds of the model *)

\* longest text typed into a name, account or description field
MaxNameLen == 1
\* longest text typed into a balance or amount field
MaxNumLen == 1
\* longest text typed into the transaction type field
MaxTypeLen == 1
\* longest text typed into the transaction tags field
MaxTagsLen == 2
\* most entities of one kind in the store
MaxPerKind == 2
\* most entities in the store, all kinds together
MaxEntities == 4
\* the clock readings a transaction can be stamped with are 1..MaxTime
MaxTime == 1

----------------------------------------------------------------------------
(* Texts *)

Empty == <<>>

\* the width of a character in UTF-8
Utf8Len(c) == IF c = "é" THEN 2 ELSE 1

RECURSIVE ByteLen(_)
\* String::len: the length of a text in bytes
ByteLen(text) ==
    IF text = <<>> THEN 0 ELSE Utf8Len(Head(text)) + ByteLen(Tail(text))

\* str::is_char_boundary: byte offset p starts a character or ends the text
IsCharBoundary(text, p) ==
    \E k \in 0..Len(text) : ByteLen(SubSeq(text, 1, k)) = p

\* the number of characters before byte offset p (p a character boundary)
CharsBefore(text, p) ==
    CHOOSE k \in 0..Len(text) : ByteLen(SubSeq(text, 1, k)) = p

\* String::insert(idx, c) panics unless idx is a character boundary
InsertPanics(text, p) == ~IsCharBoundary(text, p)

\* String::insert(idx, c)
StringInsert(text, p, c) ==
    LET k == CharsBefore(text, p)
    IN  SubSeq(text, 1, k) \o <<c>> \o SubSeq(text, k + 1, Len(text))

\* String::remove(idx) panics unless idx is the first byte of a character
RemovePanics(text, p) == ~(p < ByteLen(text) /\ IsCharBoundary(text, p))

\* String::remove(idx)
StringRemove(text, p) ==
    LET k == CharsBefore(text, p)
    IN  SubSeq(text, 1, k) \o SubSeq(text, k + 2, Len(text))

\* char::to_lowercase, on the letters the model types
LowerChar(c) ==
    CASE c = "I" -> "i"
      [] c = "E" -> "e"
      [] OTHER -> c

\* str::to_lowercase
ToLowercase(text) == [i \in 1..Len(text) |-> LowerChar(text[i])]

\* char::is_whitespace, on the characters the model types
IsWhitespace(c) == c \in {" ", "\n"}

RECURSIVE TrimStart(_)
\* str::trim_start
TrimStart(text) ==
    IF text # <<>> /\ IsWhitespace(Head(text)) THEN TrimStart(Tail(text)) ELSE text

RECURSIVE TrimEnd(_)
\* str::trim_end
TrimEnd(text) ==
    IF text # <<>> /\ IsWhitespace(text[Len(text)])
    THEN TrimEnd(SubSeq(text, 1, Len(text) - 1))
    ELSE text

\* str::trim
Trim(text) == TrimEnd(TrimStart(text))

RECURSIVE SplitFrom(_, _, _)
\* the pieces of text separated by sep, cur being the piece read so far
SplitFrom(text, sep, cur) ==
    IF text = <<>> THEN <<cur>>
    ELSE IF Head(text) = sep THEN <<cur>> \o SplitFrom(Tail(text), sep, <<>>)
    ELSE SplitFrom(Tail(text), sep, Append(cur, Head(text)))

\* str::split(sep): always at least one piece, empty pieces kept
Split(text, sep) == SplitFrom(text, sep, <<>>)

----------------------------------------------------------------------------
(* Numbers: str::parse::<f64> *)

Digits == {"0", "1", "2", "3", "4", "5", "6", "7", "8", "9"}

DigitVal(c) ==
    CASE c = "0" -> 0 [] c = "1" -> 1 [] c = "2" -> 2 [] c = "3" -> 3
      [] c = "4" -> 4 [] c = "5" -> 5 [] c = "6" -> 6 [] c = "7" -> 7
      [] c = "8" -> 8 [] c = "9" -> 9

RECURSIVE NatVal(_)
\* the number a text of digits denotes
NatVal(ds) ==
    IF ds = <<>> THEN 0
    ELSE 10 * NatVal(SubSeq(ds, 1, Len(ds) - 1)) + DigitVal(ds[Len(ds)])

RECURSIVE DropTrailingZeros(_)
DropTrailingZeros(ds) ==
    IF ds # <<>> /\ ds[Len(ds)] = "0"
    THEN DropTrailingZeros(SubSeq(ds, 1, Len(ds) - 1))
    ELSE ds

\* the text without its sign
Unsigned(text) ==
    IF text # <<>> /\ Head(text) \in {"+", "-"} THEN Tail(text) ELSE text

\* the position of the decimal point of an unsigned text, Len + 1 without one
PointAt(u) ==
    IF \E i \in 1..Len(u) : u[i] = "."
    THEN CHOOSE i \in 1..Len(u) : u[i] = "." /\ \A j \in 1..(i - 1) : u[j] # "."
    ELSE Len(u) + 1

\* parse::<f64> is Ok: an optional sign, digits with at most one decimal
\* point, at least one digit; no surrounding whitespace.  (Exponents and the
\* inf/nan spellings need letters the model never types into a number field.)
ParsesF64(text) ==
    LET u == Unsigned(text)
    IN  /\ \E i \in 1..Len(u) : u[i] \in Digits
        /\ \A i \in 1..Len(u) : u[i] \in Digits \/ i = PointAt(u)

\* the value parse::<f64> gives: sign, whole part, fraction digits
F64(text) ==
    LET u == Unsigned(text)
        p == PointAt(u)
        whole == NatVal(SubSeq(u, 1, p - 1))
        frac == DropTrailingZeros(SubSeq(u, p + 1, Len(u)))
    IN  [neg |-> text # <<>> /\ Head(text) = "-" /\ (whole # 0 \/ frac # <<>>),
         whole |-> whole,
         frac |-> frac]

\* the f64 literal 0.0
Zero == [neg |-> FALSE, whole |-> 0, frac |-> <<>>]

----------------------------------------------------------------------------
(* The form: InputField, InputMode, InputState *)

BankFields == <<"BankName", "BankAccountNumber", "BankBalance">>
BucketFields ==
    <<"BucketName", "BucketBalance", "BucketBankName", "BucketAccountNumber">>
TagFields == <<"TagName", "TagBucketName", "TagDescription">>
TransactionFields ==
    <<"TransactionType", "TransactionAmount", "TransactionTags",
      "TransactionDescription">>

Range(seq) == {seq[i] : i \in 1..Len(seq)}

\* enum InputField
InputField ==
    Range(BankFields) \cup Range(BucketFields) \cup Range(TagFields)
        \cup Range(TransactionFields)

\* the slot of InputState that update_field_value writes for a field
SlotOf(field) ==
    CASE field = "BankName" -> "bank_name"
      [] field = "BankAccountNumber" -> "bank_account"
      [] field = "BankBalance" -> "bank_balance"
      [] field = "BucketName" -> "bucket_name"
      [] field = "BucketBalance" -> "bucket_balance"
      [] field = "BucketBankName" -> "bucket_bank_name"
      [] field = "BucketAccountNumber" -> "bucket_account"
      [] field = "TagName" -> "tag_name"
      [] field = "TagBucketName" -> "tag_bucket"
      [] field = "TagDescription" -> "tag_description"
      [] field = "TransactionType" -> "transaction_type"
      [] field = "TransactionAmount" -> "transaction_amount"
      [] field = "TransactionTags" -> "transaction_tags"
      [] field = "TransactionDescription" -> "transaction_description"

\* the text slots of InputState (all its fields but mode and message)
Slots == {SlotOf(f) : f \in InputField}

\* InputMode::Normal
Normal == [kind |-> "Normal"]

\* InputMode::Editing { input, cursor_position, field }
Editing(text, cursor, field) ==
    [kind |-> "Editing", input |-> text, cursor_position |-> cursor,
     field |-> field]

\* the items of the menu
MenuItems == <<"Banks", "Buckets", "Tags", "Transactions", "Exit">>

\* the state App::new builds
NewInput ==
    [mode |-> Normal,
     bank_name |-> Empty, bank_account |-> Empty, bank_balance |-> Empty,
     bucket_name |-> Empty, bucket_balance |-> Empty,
     bucket_bank_name |-> Empty, bucket_account |-> Empty,
     tag_name |-> Empty, tag_bucket |-> Empty, tag_description |-> Empty,
     transaction_type |-> Empty, transaction_amount |-> Empty,
     transaction_tags |-> Empty, transaction_description |-> Empty,
     message |-> Empty]

Init ==
    /\ should_quit = FALSE
    /\ menu_state = [selected |-> 0, items |-> MenuItems]
    /\ user_data = [bank |-> <<>>, bucket |-> <<>>, tag |-> <<>>,
                    transaction |-> <<>>]
    /\ input = NewInput
    /\ panicked = FALSE
    /\ last = "new"

\* a status message: the literal text as one piece, typed text spliced in
Msg(literal) == <<literal>>

\* variant of clear_input_fields: the slot bank_name is left out
clear_input_fields_but_one(in) ==
    [s \in DOMAIN in |-> IF s \in {"mode", "bank_name"} THEN in[s] ELSE Empty]

\* clear_input_fields: every slot and the message emptied, the mode kept
clear_input_fields(in) ==
    [s \in DOMAIN in |-> IF s = "mode" THEN in[s] ELSE Empty]

\* variant of update_field_value: the slot is not written
update_field_value_skipped(in, field, value) == in

\* update_field_value
update_field_value(in, field, value) == [in EXCEPT ![SlotOf(field)] = value]

\* variant of switch_to_field: the cursor at the start of the loaded value
switch_to_field_at_start(in, field, value) ==
    [in EXCEPT !.mode = Editing(value, 0, field)]

\* variant of switch_to_field: the editor is opened empty, the value not loaded
switch_to_field_blank(in, field, value) ==
    [in EXCEPT !.mode = Editing(Empty, 0, field)]

\* switch_to_field: the editor loaded with value, the cursor at its byte length
switch_to_field(in, field, value) ==
    [in EXCEPT !.mode = Editing(value, ByteLen(value), field)]

----------------------------------------------------------------------------
(* The entity store and the commit validators.  A validator maps the input *)
(* state and the store to the new input state and store; `outcome` names   *)
(* the return it took.                                                     *)

Result(in, ud, outcome) == [in |-> in, ud |-> ud, outcome |-> outcome]

\* the index of the first bank with this name and account number, 0 if none
FindBank(banks, name, account) ==
    IF \E i \in 1..Len(banks) :
           banks[i].name = name /\ banks[i].accountnumber = account
    THEN CHOOSE i \in 1..Len(banks) :
           /\ banks[i].name = name /\ banks[i].accountnumber = account
           /\ \A j \in 1..(i - 1) :
                ~(banks[j].name = name /\ banks[j].accountnumber = account)
    ELSE 0

\* the index of the first entity (bucket or tag) with this name, 0 if none
FindByName(entities, name) ==
    IF \E i \in 1..Len(entities) : entities[i].name = name
    THEN CHOOSE i \in 1..Len(entities) :
           /\ entities[i].name = name
           /\ \A j \in 1..(i - 1) : entities[j].name # name
    ELSE 0

\* variant of bank_exists: the duplicate check left out
bank_exists_skipped(in, ud) == FALSE

\* add_bank's duplicate check
bank_exists(in, ud) == FindBank(ud.bank, in.bank_name, in.bank_account) # 0

\* variant of new_bank: name and account number swapped
new_bank_swapped(in) ==
    [name |-> in.bank_account,
     accountnumber |-> in.bank_name,
     balance |-> F64(in.bank_balance)]

\* the Bank add_bank builds from the slots
new_bank(in) ==
    [name |-> in.bank_name,
     accountnumber |-> in.bank_account,
     balance |-> F64(in.bank_balance)]

\* variant of bank_exists_message: the account number left out
bank_exists_message_no_account(in) ==
    Msg("Bank with name '") \o in.bank_name \o Msg("' already exists")

\* add_bank's message for a duplicate
bank_exists_message(in) ==
    Msg("Bank with name '") \o in.bank_name \o Msg("' and account '")
        \o in.bank_account \o Msg("' already exists")

add_bank(in, ud) ==
    IF ~ParsesF64(in.bank_balance)
    THEN Result([in EXCEPT !.message = Msg("Invalid balance format")], ud,
                "bank_parse_error")
    ELSE IF bank_exists(in, ud)
    THEN Result([in EXCEPT !.message = bank_exists_message(in)], ud,
                "bank_duplicate")
    ELSE Result(clear_input_fields(
                    [in EXCEPT !.message = Msg("Bank added successfully")]),
                [ud EXCEPT !.bank = Append(@, new_bank(in))],
                "bank_added")

\* variant of bucket_exists: the duplicate check left out
bucket_exists_skipped(in, ud) == FALSE

\* add_bucket's duplicate check
bucket_exists(in, ud) == FindByName(ud.bucket, in.bucket_name) # 0

\* variant of find_or_create_bank: the created bank is not pushed
find_or_create_bank_unpushed(in, ud) ==
    LET found == FindBank(ud.bank, in.bucket_bank_name, in.bucket_account)
        created == [name |-> in.bucket_bank_name,
                    accountnumber |-> in.bucket_account,
                    balance |-> Zero]
    IN  IF found # 0
        THEN [bank |-> ud.bank[found], banks |-> ud.bank, created |-> FALSE]
        ELSE [bank |-> created, banks |-> ud.bank, created |-> TRUE]

\* variant of find_or_create_bank: the bucket embeds a fresh bank of balance 0
\* even when the bank is found
find_or_create_bank_fresh(in, ud) ==
    LET found == FindBank(ud.bank, in.bucket_bank_name, in.bucket_account)
        created == [name |-> in.bucket_bank_name,
                    accountnumber |-> in.bucket_account,
                    balance |-> Zero]
    IN  IF found # 0
        THEN [bank |-> created, banks |-> ud.bank, created |-> FALSE]
        ELSE [bank |-> created, banks |-> Append(ud.bank, created),
              created |-> TRUE]

\* variant of find_or_create_bank: the created bank is put in front of the
\* stored banks
find_or_create_bank_prepended(in, ud) ==
    LET found == FindBank(ud.bank, in.bucket_bank_name, in.bucket_account)
        created == [name |-> in.bucket_bank_name,
                    accountnumber |-> in.bucket_account,
                    balance |-> Zero]
    IN  IF found # 0
        THEN [bank |-> ud.bank[found], banks |-> ud.bank, created |-> FALSE]
        ELSE [bank |-> created, banks |-> <<created>> \o ud.bank,
              created |-> TRUE]

\* add_bucket's "find existing bank or create a new one": the bank the bucket
\* embeds, the bank collection afterwards, and whether a bank was created
find_or_create_bank(in, ud) ==
    LET found == FindBank(ud.bank, in.bucket_bank_name, in.bucket_account)
        created == [name |-> in.bucket_bank_name,
                    accountnumber |-> in.bucket_account,
                    balance |-> Zero]
    IN  IF found # 0
        THEN [bank |-> ud.bank[found], banks |-> ud.bank, created |-> FALSE]
        ELSE [bank |-> created, banks |-> Append(ud.bank, created),
              created |-> TRUE]

\* the Bucket add_bucket builds from the slots and the bank
new_bucket(in, bank) ==
    [name |-> in.bucket_name,
     balance |-> F64(in.bucket_balance),
     bank |-> bank]

\* variant of add_bucket: the bank is found or created before the duplicate
\* check, so a bucket rejected for its name leaves the created bank behind
add_bucket_bank_first(in, ud) ==
    IF ~ParsesF64(in.bucket_balance)
    THEN Result([in EXCEPT !.message = Msg("Invalid balance format")], ud,
                "bucket_parse_error")
    ELSE LET b == find_or_create_bank(in, ud)
         IN  IF bucket_exists(in, ud)
             THEN Result([in EXCEPT !.message =
                              Msg("Bucket with name '") \o in.bucket_name
                                  \o Msg("' already exists")],
                         [ud EXCEPT !.bank = b.banks], "bucket_duplicate")
             ELSE Result(clear_input_fields(
                             [in EXCEPT !.message =
                                  Msg("Bucket added successfully")]),
                         [ud EXCEPT !.bank = b.banks,
                                    !.bucket = Append(@, new_bucket(in, b.bank))],
                         IF b.created THEN "bucket_added_with_bank"
                         ELSE "bucket_added")

\* add_bucket: parse, duplicate check, bank, push
add_bucket(in, ud) ==
    IF ~ParsesF64(in.bucket_balance)
    THEN Result([in EXCEPT !.message = Msg("Invalid balance format")], ud,
                "bucket_parse_error")
    ELSE IF bucket_exists(in, ud)
    THEN Result([in EXCEPT !.message =
                     Msg("Bucket with name '") \o in.bucket_name
                         \o Msg("' already exists")],
                ud, "bucket_duplicate")
    ELSE LET b == find_or_create_bank(in, ud)
         IN  Result(clear_input_fields(
                        [in EXCEPT !.message = Msg("Bucket added successfully")]),
                    [ud EXCEPT !.bank = b.banks,
                               !.bucket = Append(@, new_bucket(in, b.bank))],
                    IF b.created THEN "bucket_added_with_bank"
                    ELSE "bucket_added")

\* add_tag's duplicate check
tag_exists(in, ud) == FindByName(ud.tag, in.tag_name) # 0

\* variant of bucket_missing_message: the tag is named, not the bucket
bucket_missing_message_names_tag(in) ==
    Msg("Bucket with name '") \o in.tag_name \o Msg("' does not exist")

\* add_tag's message for a bucket that is not in the store
bucket_missing_message(in) ==
    Msg("Bucket with name '") \o in.tag_bucket \o Msg("' does not exist")

\* variant of new_tag: the embedded bucket has its balance reset to zero
new_tag_zeroed_bucket(in, bucket) ==
    [name |-> in.tag_name,
     description |-> in.tag_description,
     bucket |-> [bucket EXCEPT !.balance = Zero]]

\* the Tag add_tag builds from the slots and the bucket
new_tag(in, bucket) ==
    [name |-> in.tag_name,
     description |-> in.tag_description,
     bucket |-> bucket]

\* variant of add_tag: the bucket is looked up before the duplicate check
add_tag_bucket_first(in, ud) ==
    IF FindByName(ud.bucket, in.tag_bucket) = 0
    THEN Result([in EXCEPT !.message = bucket_missing_message(in)], ud,
                "tag_unresolved")
    ELSE IF tag_exists(in, ud)
    THEN Result([in EXCEPT !.message =
                     Msg("Tag with name '") \o in.tag_name
                         \o Msg("' already exists")],
                ud, "tag_duplicate")
    ELSE LET bucket == ud.bucket[FindByName(ud.bucket, in.tag_bucket)]
         IN  Result(clear_input_fields(
                        [in EXCEPT !.message = Msg("Tag added successfully")]),
                    [ud EXCEPT !.tag = Append(@, new_tag(in, bucket))],
                    "tag_added")

\* add_tag: duplicate check, bucket lookup, push
add_tag(in, ud) ==
    IF tag_exists(in, ud)
    THEN Result([in EXCEPT !.message =
                     Msg("Tag with name '") \o in.tag_name
                         \o Msg("' already exists")],
                ud, "tag_duplicate")
    ELSE IF FindByName(ud.bucket, in.tag_bucket) = 0
    THEN Result([in EXCEPT !.message = bucket_missing_message(in)], ud,
                "tag_unresolved")
    ELSE LET bucket == ud.bucket[FindByName(ud.bucket, in.tag_bucket)]
         IN  Result(clear_input_fields(
                        [in EXCEPT !.message = Msg("Tag added successfully")]),
                    [ud EXCEPT !.tag = Append(@, new_tag(in, bucket))],
                    "tag_added")

\* variant of ParseTransactionType: the text is matched as typed, not
\* lowercased
ParseTransactionType_case_sensitive(text) ==
    IF text \in {<<"i">>, <<"i", "n", "c", "o", "m", "e">>} THEN "Income"
    ELSE IF text \in {<<"e">>, <<"e", "x", "p", "e", "n", "s", "e">>}
    THEN "Expense"
    ELSE "Invalid"

\* the match on the lowercased type text: "Income", "Expense" or "Invalid"
ParseTransactionType(text) ==
    LET t == ToLowercase(text)
    IN  IF t \in {<<"i">>, <<"i", "n", "c", "o", "m", "e">>} THEN "Income"
        ELSE IF t \in {<<"e">>, <<"e", "x", "p", "e", "n", "s", "e">>}
        THEN "Expense"
        ELSE "Invalid"

\* the names add_transaction's loop looks up: the pieces of the tags text
\* between commas, each trimmed, in input order; none for an empty text
TagNames(text) ==
    IF text = <<>> THEN <<>>
    ELSE LET pieces == Split(text, ",")
         IN  [i \in 1..Len(pieces) |-> Trim(pieces[i])]

\* variant of MissingTags: only the first name is looked up
MissingTags_first_only(names, ud) ==
    {i \in 1..Len(names) : i = 1 /\ FindByName(ud.tag, names[i]) = 0}

\* the positions of the names the loop does not find in the store
MissingTags(names, ud) ==
    {i \in 1..Len(names) : FindByName(ud.tag, names[i]) = 0}

\* variant of ResolvedTags: the tags collected in reverse order
ResolvedTags_reversed(names, ud) ==
    LET unfound == {i \in 1..Len(names) : FindByName(ud.tag, names[i]) = 0}
        n == IF unfound = {} THEN Len(names)
             ELSE (CHOOSE i \in unfound : \A j \in unfound : i <= j) - 1
    IN  [i \in 1..n |-> ud.tag[FindByName(ud.tag, names[n + 1 - i])]]

\* the tags the loop has collected when it ends: a copy of the stored tag of
\* each name before the first one not found (of every name when all are found)
ResolvedTags(names, ud) ==
    LET unfound == {i \in 1..Len(names) : FindByName(ud.tag, names[i]) = 0}
        n == IF unfound = {} THEN Len(names)
             ELSE (CHOOSE i \in unfound : \A j \in unfound : i <= j) - 1
    IN  [i \in 1..n |-> ud.tag[FindByName(ud.tag, names[i])]]

\* variant of transaction_id: the count without the + 1
transaction_id_from_zero(ud) == Len(ud.transaction)

\* the id add_transaction gives the new transaction
transaction_id(ud) == Len(ud.transaction) + 1

\* the Transaction add_transaction builds
new_transaction(in, ud, timestamp) ==
    [id |-> transaction_id(ud),
     transaction_type |-> ParseTransactionType(in.transaction_type),
     amount |-> F64(in.transaction_amount),
     timestamp |-> timestamp,
     tags |-> ResolvedTags(TagNames(in.transaction_tags), ud),
     description |-> in.transaction_description]

\* timestamp: the clock reading (seconds since the epoch) at the commit
add_transaction(in, ud, timestamp) ==
    LET names == TagNames(in.transaction_tags)
        missing == MissingTags(names, ud)
    IN  IF ParseTransactionType(in.transaction_type) = "Invalid"
        THEN Result([in EXCEPT !.message =
                Msg("Invalid transaction type. Use 'i' for income or 'e' for expense")],
                ud, "transaction_type_error")
        ELSE IF ~ParsesF64(in.transaction_amount)
        THEN Result([in EXCEPT !.message = Msg("Invalid amount format")], ud,
                    "transaction_amount_error")
        ELSE IF missing # {}
        THEN LET first == CHOOSE i \in missing : \A j \in missing : i <= j
             IN  Result([in EXCEPT !.message =
                             Msg("Tag '") \o names[first] \o Msg("' does not exist")],
                        ud, "transaction_unresolved")
        ELSE Result(clear_input_fields(
                        [in EXCEPT !.message =
                             Msg("Transaction added successfully")]),
                    [ud EXCEPT !.transaction =
                         Append(@, new_transaction(in, ud, timestamp))],
                    "transaction_added")

----------------------------------------------------------------------------
(* The form navigator *)

\* variant of ThenNormal: InputMode::Normal only when the validator cleared
\* the slots, a rejected form stays open
ThenNormal_on_success(r) ==
    IF r.in.message = Empty
    THEN Result([r.in EXCEPT !.mode = Normal], r.ud, r.outcome)
    ELSE r

\* a commit arm of move_to_next_field: the validator, then InputMode::Normal
ThenNormal(r) == Result([r.in EXCEPT !.mode = Normal], r.ud, r.outcome)

\* variant of Switch: the field changes, the editor keeps its text and cursor
Switch_carrying_text(in, ud, field) ==
    Result([in EXCEPT !.mode.field = field], ud, "next")

\* a non-commit arm: switch_to_field, the store untouched
Switch(in, ud, field) ==
    Result(switch_to_field(in, field, in[SlotOf(field)]), ud, "next")

\* variant of move_to_next_field: the bucket form commits one field early
move_to_next_field_early_commit(in, ud, current_field, timestamp) ==
    CASE current_field = "BankName" -> Switch(in, ud, "BankAccountNumber")
      [] current_field = "BankAccountNumber" -> Switch(in, ud, "BankBalance")
      [] current_field = "BankBalance" -> ThenNormal(add_bank(in, ud))
      [] current_field = "BucketName" -> Switch(in, ud, "BucketBalance")
      [] current_field = "BucketBalance" -> Switch(in, ud, "BucketBankName")
      [] current_field = "BucketBankName" -> ThenNormal(add_bucket(in, ud))
      [] current_field = "BucketAccountNumber" -> ThenNormal(add_bucket(in, ud))
      [] current_field = "TagName" -> Switch(in, ud, "TagBucketName")
      [] current_field = "TagBucketName" -> Switch(in, ud, "TagDescription")
      [] current_field = "TagDescription" -> ThenNormal(add_tag(in, ud))
      [] current_field = "TransactionType" ->
            Switch(in, ud, "TransactionAmount")
      [] current_field = "TransactionAmount" ->
            Switch(in, ud, "TransactionTags")
      [] current_field = "TransactionTags" ->
            Switch(in, ud, "TransactionDescription")
      [] current_field = "TransactionDescription" ->
            ThenNormal(add_transaction(in, ud, timestamp))

\* move_to_next_field: the next field of the form, or the commit at its end
move_to_next_field(in, ud, current_field, timestamp) ==
    CASE current_field = "BankName" -> Switch(in, ud, "BankAccountNumber")
      [] current_field = "BankAccountNumber" -> Switch(in, ud, "BankBalance")
      [] current_field = "BankBalance" -> ThenNormal(add_bank(in, ud))
      [] current_field = "BucketName" -> Switch(in, ud, "BucketBalance")
      [] current_field = "BucketBalance" -> Switch(in, ud, "BucketBankName")
      [] current_field = "BucketBankName" ->
            Switch(in, ud, "BucketAccountNumber")
      [] current_field = "BucketAccountNumber" -> ThenNormal(add_bucket(in, ud))
      [] current_field = "TagName" -> Switch(in, ud, "TagBucketName")
      [] current_field = "TagBucketName" -> Switch(in, ud, "TagDescription")
      [] current_field = "TagDescription" -> ThenNormal(add_tag(in, ud))
      [] current_field = "TransactionType" ->
            Switch(in, ud, "TransactionAmount")
      [] current_field = "TransactionAmount" ->
            Switch(in, ud, "TransactionTags")
      [] current_field = "TransactionTags" ->
            Switch(in, ud, "TransactionDescription")
      [] current_field = "TransactionDescription" ->
            ThenNormal(add_transaction(in, ud, timestamp))

move_to_previous_field(in, current_field) ==
    CASE current_field = "BankName" -> in
      [] current_field = "BankAccountNumber" ->
            switch_to_field(in, "BankName", in.bank_name)
      [] current_field = "BankBalance" ->
            switch_to_field(in, "BankAccountNumber", in.bank_account)
      [] current_field = "BucketName" -> in
      [] current_field = "BucketBalance" ->
            switch_to_field(in, "BucketName", in.bucket_name)
      [] current_field = "BucketBankName" ->
            switch_to_field(in, "BucketBalance", in.bucket_balance)
      [] current_field = "BucketAccountNumber" ->
            switch_to_field(in, "BucketBankName", in.bucket_bank_name)
      [] current_field = "TagName" -> in
      [] current_field = "TagBucketName" ->
            switch_to_field(in, "TagName", in.tag_name)
      [] current_field = "TagDescription" ->
            switch_to_field(in, "TagBucketName", in.tag_bucket)
      [] current_field = "TransactionType" -> in
      [] current_field = "TransactionAmount" ->
            switch_to_field(in, "TransactionType", in.transaction_type)
      [] current_field = "TransactionTags" ->
            switch_to_field(in, "TransactionAmount", in.transaction_amount)
      [] current_field = "TransactionDescription" ->
            switch_to_field(in, "TransactionTags", in.transaction_tags)

\* variant of start_new_input: the slots are cleared, the message is kept
start_new_input_keeping_message(in, field) ==
    [clear_input_fields(in) EXCEPT !.mode = Editing(Empty, 0, field),
                                   !.message = in.message]

\* variant of start_new_input: the slots and the message are not cleared
start_new_input_uncleared(in, field) ==
    [in EXCEPT !.mode = Editing(Empty, 0, field)]

\* start_new_bank_input, start_new_bucket_input, start_new_tag_input and
\* start_new_transaction_input: the slots cleared, the editor empty at `field`
start_new_input(in, field) ==
    [clear_input_fields(in) EXCEPT !.mode = Editing(Empty, 0, field)]

\* variant of StartField: the forms of tags and transactions are swapped
StartField_swapped(selected) ==
    CASE selected = 0 -> "BankName"
      [] selected = 1 -> "BucketName"
      [] selected = 2 -> "TransactionType"
      [] selected = 3 -> "TagName"

\* the first field of the form that 'n' starts for a menu selection
StartField(selected) ==
    CASE selected = 0 -> "BankName"
      [] selected = 1 -> "BucketName"
      [] selected = 2 -> "TagName"
      [] selected = 3 -> "TransactionType"

----------------------------------------------------------------------------
(* What the model types, and how much *)

\* the characters typed into name fields, account fields, balance fields,
\* the amount field, description fields, the transaction type field and the
\* tags field
NameChars == {"a"}
AccountChars == {"1"}
NumberChars == {"1", "é"}
AmountChars == {"1"}
DescriptionChars == {"d"}
TypeChars == {"i"}
TagsChars == {"a", ","}

\* the characters typed into a field
TypedChars(field) ==
    CASE field \in {"BankName", "BucketName", "BucketBankName", "TagName",
                    "TagBucketName"} -> NameChars
      [] field \in {"BankAccountNumber", "BucketAccountNumber"} -> AccountChars
      [] field \in {"BankBalance", "BucketBalance"} -> NumberChars
      [] field = "TransactionAmount" -> AmountChars
      [] field \in {"TagDescription", "TransactionDescription"} ->
            DescriptionChars
      [] field = "TransactionType" -> TypeChars
      [] field = "TransactionTags" -> TagsChars

\* the longest text typed into a field, in characters
MaxLenOf(field) ==
    CASE field \in {"BankBalance", "BucketBalance", "TransactionAmount"} ->
            MaxNumLen
      [] field = "TransactionType" -> MaxTypeLen
      [] field = "TransactionTags" -> MaxTagsLen
      [] OTHER -> MaxNameLen

\* the number of entities in a store
Size(ud) == Len(ud.bank) + Len(ud.bucket) + Len(ud.tag) + Len(ud.transaction)

\* the store is within the model's bounds
WithinBounds(ud) ==
    /\ Len(ud.bank) <= MaxPerKind
    /\ Len(ud.bucket) <= MaxPerKind
    /\ Len(ud.tag) <= MaxPerKind
    /\ Len(ud.transaction) <= MaxPerKind
    /\ Size(ud) <= MaxEntities

\* the store has room for one more entity of the kind a menu selection creates
HasRoom(ud, selected) ==
    /\ Size(ud) < MaxEntities
    /\ CASE selected = 0 -> Len(ud.bank) < MaxPerKind
         [] selected = 1 -> Len(ud.bucket) < MaxPerKind
         [] selected = 2 -> Len(ud.tag) < MaxPerKind
         [] selected = 3 -> Len(ud.transaction) < MaxPerKind

----------------------------------------------------------------------------
(* Key events: handle_events dispatches on the mode *)

\* the event loop calls handle_events until should_quit; a panic ends the run
Running == ~should_quit /\ ~panicked

InNormal == Running /\ input.mode.kind = "Normal"
InEditing == Running /\ input.mode.kind = "Editing"

\* handle_normal_mode, KeyCode::Char('q')
NormalQuit ==
    /\ InNormal
    /\ should_quit' = TRUE
    /\ last' = "quit"
    /\ UNCHANGED <<menu_state, user_data, input, panicked>>

\* variant of NormalUp: the selection stays on the first item, it does not wrap
NormalUp_saturating ==
    /\ InNormal
    /\ menu_state' = [menu_state EXCEPT !.selected =
                          IF @ > 0 THEN @ - 1 ELSE 0]
    /\ last' = "idle"
    /\ UNCHANGED <<should_quit, user_data, input, panicked>>

\* handle_normal_mode, KeyCode::Up
NormalUp ==
    /\ InNormal
    /\ menu_state' = [menu_state EXCEPT !.selected =
                          IF @ > 0 THEN @ - 1 ELSE Len(menu_state.items) - 1]
    /\ last' = "idle"
    /\ UNCHANGED <<should_quit, user_data, input, panicked>>

\* variant of NormalDown: the key also clears the status message
NormalDown_clears_message ==
    /\ InNormal
    /\ menu_state' = [menu_state EXCEPT !.selected =
                          IF @ < Len(menu_state.items) - 1 THEN @ + 1 ELSE 0]
    /\ input' = [input EXCEPT !.message = Empty]
    /\ last' = "idle"
    /\ UNCHANGED <<should_quit, user_data, panicked>>

\* handle_normal_mode, KeyCode::Down
NormalDown ==
    /\ InNormal
    /\ menu_state' = [menu_state EXCEPT !.selected =
                          IF @ < Len(menu_state.items) - 1 THEN @ + 1 ELSE 0]
    /\ last' = "idle"
    /\ UNCHANGED <<should_quit, user_data, input, panicked>>

\* handle_normal_mode, KeyCode::Enter
NormalEnter ==
    /\ InNormal
    /\ should_quit' = (menu_state.selected = Len(menu_state.items) - 1)
    /\ last' = IF should_quit' THEN "quit" ELSE "idle"
    /\ UNCHANGED <<menu_state, user_data, input, panicked>>

\* handle_normal_mode, KeyCode::Char('n')
NormalNew ==
    /\ InNormal
    /\ IF menu_state.selected \in 0..3
       THEN /\ HasRoom(user_data, menu_state.selected)
            /\ input' = start_new_input(input, StartField(menu_state.selected))
            /\ last' = "start"
       ELSE /\ input' = input
            /\ last' = "idle"
    /\ UNCHANGED <<should_quit, menu_state, user_data, panicked>>

\* handle_normal_mode, any other key
NormalOther ==
    /\ InNormal
    /\ last' = "idle"
    /\ UNCHANGED <<should_quit, menu_state, user_data, input, panicked>>

\* handle_editing_mode, KeyCode::Enter | KeyCode::Down, the clock reading
\* `timestamp`; `last` records a move to the next field that follows a move
\* to the previous one
Enter(timestamp) ==
    /\ InEditing
    /\ LET r == move_to_next_field(input, user_data, input.mode.field, timestamp)
       IN  /\ input' = r.in
           /\ user_data' = r.ud
           /\ last' = IF r.outcome = "next" /\ last = "prev"
                      THEN "prev_next" ELSE r.outcome
    /\ UNCHANGED <<should_quit, menu_state, panicked>>

\* handle_editing_mode, KeyCode::Down: the match arm of KeyCode::Enter
Down(timestamp) == Enter(timestamp)

\* Enter, as long as the store stays within the bounds
EditNext ==
    \E timestamp \in 1..MaxTime :
        /\ InEditing
        /\ WithinBounds(
               move_to_next_field(input, user_data, input.mode.field,
                                  timestamp).ud)
        /\ Enter(timestamp)

\* handle_editing_mode, KeyCode::Up
EditPrev ==
    /\ InEditing
    /\ input' = move_to_previous_field(input, input.mode.field)
    /\ last' = IF input'.mode.field # input.mode.field THEN "prev" ELSE "edit"
    /\ UNCHANGED <<should_quit, menu_state, user_data, panicked>>

\* variant of EditEsc: a message reports the cancel
EditEsc_with_message ==
    /\ InEditing
    /\ input' = [input EXCEPT !.mode = Normal, !.message = Msg("Cancelled")]
    /\ last' = "esc"
    /\ UNCHANGED <<should_quit, menu_state, user_data, panicked>>

\* variant of EditEsc: the message is cleared, the form stays open
EditEsc_message_only ==
    /\ InEditing
    /\ input' = [input EXCEPT !.message = Empty]
    /\ last' = "esc"
    /\ UNCHANGED <<should_quit, menu_state, user_data, panicked>>

\* handle_editing_mode, KeyCode::Esc
EditEsc ==
    /\ InEditing
    /\ input' = [input EXCEPT !.mode = Normal, !.message = Empty]
    /\ last' = "esc"
    /\ UNCHANGED <<should_quit, menu_state, user_data, panicked>>

\* handle_editing_mode, KeyCode::Backspace
EditBackspace ==
    /\ InEditing
    /\ LET m == input.mode
       IN  IF m.cursor_position > 0
               /\ RemovePanics(m.input, m.cursor_position - 1)
           THEN /\ panicked' = TRUE
                /\ last' = "panic"
                /\ input' = input
           ELSE LET text == IF m.cursor_position > 0
                            THEN StringRemove(m.input, m.cursor_position - 1)
                            ELSE m.input
                    cursor == IF m.cursor_position > 0
                              THEN m.cursor_position - 1
                              ELSE m.cursor_position
                IN  /\ input' = update_field_value(
                                    [input EXCEPT !.mode =
                                         Editing(text, cursor, m.field)],
                                    m.field, text)
                    /\ last' = "edit"
                    /\ panicked' = panicked
    /\ UNCHANGED <<should_quit, menu_state, user_data>>

\* variant of Char: 'q' typed in a form quits, as it does in the menu
Char_quitting(c) ==
    /\ InEditing
    /\ should_quit' = (c = "q")
    /\ last' = IF c = "q" THEN "quit" ELSE "edit"
    /\ LET m == input.mode
           text == StringInsert(m.input, m.cursor_position, c)
       IN  input' = IF c = "q" THEN input
                    ELSE update_field_value(
                             [input EXCEPT !.mode =
                                  Editing(text, m.cursor_position + 1, m.field)],
                             m.field, text)
    /\ UNCHANGED <<menu_state, user_data, panicked>>

\* handle_editing_mode, KeyCode::Char(c)
Char(c) ==
    /\ InEditing
    /\ LET m == input.mode
       IN  IF InsertPanics(m.input, m.cursor_position)
           THEN /\ panicked' = TRUE
                /\ last' = "panic"
                /\ input' = input
           ELSE LET text == StringInsert(m.input, m.cursor_position, c)
                IN  /\ input' = update_field_value(
                                    [input EXCEPT !.mode =
                                         Editing(text, m.cursor_position + 1,
                                                 m.field)],
                                    m.field, text)
                    /\ last' = "edit"
                    /\ panicked' = panicked
    /\ UNCHANGED <<should_quit, menu_state, user_data>>

\* Char, for the characters typed into the field and as long as the text
\* stays within the bounds
EditChar ==
    /\ InEditing
    /\ Len(input.mode.input) < MaxLenOf(input.mode.field)
    /\ \E c \in TypedChars(input.mode.field) : Char(c)

\* handle_editing_mode, any other key
EditOther ==
    /\ InEditing
    /\ last' = "edit"
    /\ UNCHANGED <<should_quit, menu_state, user_data, input, panicked>>

Next ==
    \/ NormalQuit
    \/ NormalUp
    \/ NormalDown
    \/ NormalEnter
    \/ NormalNew
    \/ NormalOther
    \/ EditNext
    \/ EditPrev
    \/ EditEsc
    \/ EditBackspace
    \/ EditChar
    \/ EditOther

Spec == Init /\ [][Next]_vars

----------------------------------------------------------------------------
(* The keys the menu binds, pressed in the menu and typed into a form: the *)
(* same handlers, with 'q' and 'n' as the typed characters.                *)

\* the characters the menu binds to an operation
MenuKeys == {"q", "n"}

\* longest text of menu keys typed
MaxKeysLen == 2

\* Char, for the menu's keys
KeyChar ==
    /\ InEditing
    /\ Len(input.mode.input) < MaxKeysLen
    /\ \E c \in MenuKeys : Char(c)

KeyNext ==
    \/ NormalQuit
    \/ NormalUp
    \/ NormalDown
    \/ NormalEnter
    \/ NormalNew
    \/ NormalOther
    \/ KeyChar
    \/ EditPrev
    \/ EditEsc
    \/ EditBackspace
    \/ EditOther

KeySpec == Init /\ [][KeyNext]_vars

----------------------------------------------------------------------------
(* The transaction commit on its own: add_transaction is a function of the *)
(* slots, the store and the clock, applied here to slots and stores drawn  *)
(* from sets wider than the ones the runs above type their way to.         *)

\* longest tags text drawn
MaxLedgerTagsLen == 3

\* the texts of at most n characters of a set
TextsOver(chars, n) == UNION {[1..k -> chars] : k \in 0..n}

\* the tag names of the drawn stores
LedgerTagNames == {<<>>, <<"a">>, <<"b">>}

\* a bank as add_bucket creates it, a bucket on it, and a tag on that bucket
LedgerBank == [name |-> <<"a">>, accountnumber |-> <<"1">>, balance |-> Zero]
LedgerBucket == [name |-> <<"a">>, balance |-> F64(<<"1">>), bank |-> LedgerBank]
LedgerTag(name) == [name |-> name, description |-> <<"d">>, bucket |-> LedgerBucket]

\* stores the application builds by a bucket commit and tag commits: one
\* bank, one bucket, tags of distinct names, no transaction yet
LedgerStores ==
    {[bank |-> <<LedgerBank>>, bucket |-> <<LedgerBucket>>,
      tag |-> [i \in 1..Len(names) |-> LedgerTag(names[i])],
      transaction |-> <<>>] :
        names \in {ns \in TextsOver(LedgerTagNames, MaxPerKind) :
                      \A i, j \in 1..Len(ns) : ns[i] = ns[j] => i = j}}

\* the type, amount, tags and description texts drawn
LedgerTypes ==
    {<<>>, <<"i">>, <<"E">>, <<"x">>, <<"I", "n", "c", "o", "m", "e">>,
     <<"e", "x", "p", "e", "n", "s", "e">>}
LedgerAmounts == {<<>>, <<"1">>, <<"-", "1", ".", "5">>}
LedgerTags == TextsOver({"a", "b", ",", " "}, MaxLedgerTagsLen)
LedgerDescriptions == {<<>>, <<"d">>}

\* the transaction form filled in, the editor on its last field
LedgerInit ==
    /\ should_quit = FALSE
    /\ menu_state = [selected |-> 3, items |-> MenuItems]
    /\ user_data \in LedgerStores
    /\ \E type \in LedgerTypes, amount \in LedgerAmounts, tags \in LedgerTags,
          description \in LedgerDescriptions :
         input = [NewInput EXCEPT
                      !.transaction_type = type,
                      !.transaction_amount = amount,
                      !.transaction_tags = tags,
                      !.transaction_description = description,
                      !.mode = Editing(description, ByteLen(description),
                                       "TransactionDescription")]
    /\ panicked = FALSE
    /\ last = "edit"

\* the confirm of the last field
LedgerCommit == \E timestamp \in 1..MaxTime : Enter(timestamp)

LedgerNext == LedgerCommit

LedgerSpec == LedgerInit /\ [][LedgerNext]_vars

----------------------------------------------------------------------------
(* The tag form on its own: tag names typed from the characters that the   *)
(* tags field of the transaction form splits on and trims, committed into  *)
(* a store that holds the bucket the tags go on.                           *)

\* the characters typed into the name field of the tag form
LabelChars == {"a", ",", " "}

\* longest tag name typed
MaxLabelLen == 2

\* longest tags text tried against a stored tag
MaxLabelsLen == 3

\* the state after a bucket commit and 'n' on the Tags item
LabelInit ==
    /\ should_quit = FALSE
    /\ menu_state = [selected |-> 2, items |-> MenuItems]
    /\ user_data = [bank |-> <<LedgerBank>>, bucket |-> <<LedgerBucket>>,
                    tag |-> <<>>, transaction |-> <<>>]
    /\ input = start_new_input(NewInput, StartField(2))
    /\ panicked = FALSE
    /\ last = "start"

\* Char, for the characters typed into the fields of the tag form
LabelChar ==
    /\ InEditing
    /\ IF input.mode.field = "TagName"
       THEN /\ Len(input.mode.input) < MaxLabelLen
            /\ \E c \in LabelChars : Char(c)
       ELSE /\ Len(input.mode.input) < MaxLenOf(input.mode.field)
            /\ \E c \in TypedChars(input.mode.field) : Char(c)

LabelNext ==
    \/ NormalNew
    \/ LabelChar
    \/ EditNext
    \/ EditPrev

LabelSpec == LabelInit /\ [][LabelNext]_vars

----------------------------------------------------------------------------
(* The console program (main.rs): run_console reads a line, trims it and   *)
(* hands it to the handler of its first word.  A handler maps the line,    *)
(* the store and the clock reading to the new store, the line it prints,   *)
(* and the way it returned.                                                *)

ConsoleResult(ud, out, outcome) == [ud |-> ud, out |-> out, outcome |-> outcome]

RECURSIVE WordsFrom(_, _)
\* the words of text, cur being the word read so far
WordsFrom(text, cur) ==
    IF text = <<>> THEN IF cur = <<>> THEN <<>> ELSE <<cur>>
    ELSE IF IsWhitespace(Head(text))
    THEN (IF cur = <<>> THEN <<>> ELSE <<cur>>) \o WordsFrom(Tail(text), <<>>)
    ELSE WordsFrom(Tail(text), Append(cur, Head(text)))

\* str::split_whitespace: the pieces between runs of whitespace, none empty
SplitWhitespace(text) == WordsFrom(text, <<>>)

RECURSIVE Join(_, _)
\* [&str]::join(sep)
Join(pieces, sep) ==
    IF pieces = <<>> THEN <<>>
    ELSE IF Len(pieces) = 1 THEN pieces[1]
    ELSE pieces[1] \o <<sep>> \o Join(Tail(pieces), sep)

\* str::starts_with
StartsWith(text, prefix) ==
    Len(text) >= Len(prefix) /\ SubSeq(text, 1, Len(prefix)) = prefix

\* indexing a Vec panics past its end: parts[index], index counted from 0
IndexPanics(parts, index) == index >= Len(parts)

\* run_console's user1
NewUserData == [bank |-> <<>>, bucket |-> <<>>, tag |-> <<>>, transaction |-> <<>>]

\* handle_bank
handle_bank(line, ud) ==
    LET parts == SplitWhitespace(Trim(line))
    IN  IF Len(parts) < 3
        THEN ConsoleResult(ud,
                 Msg("Usage: bank <name> <accountnumber> <balance>"), "usage")
        ELSE IF IndexPanics(parts, 3)
        THEN ConsoleResult(ud, Empty, "abort")
        ELSE IF ~ParsesF64(parts[4])
        THEN ConsoleResult(ud,
                 Msg("Invalid balance. Please enter a valid number."),
                 "parse_error")
        ELSE IF FindBank(ud.bank, parts[2], parts[3]) # 0
        THEN ConsoleResult(ud,
                 Msg("Bank with name '") \o parts[2]
                     \o Msg("' and account number '") \o parts[3]
                     \o Msg("' already exists."),
                 "duplicate")
        ELSE ConsoleResult(
                 [ud EXCEPT !.bank =
                      Append(@, [name |-> parts[2], accountnumber |-> parts[3],
                                 balance |-> F64(parts[4])])],
                 Empty, "added")

\* handle_bucket: the bank is found or pushed before the duplicate check
handle_bucket(line, ud) ==
    LET parts == SplitWhitespace(Trim(line))
    IN  IF Len(parts) < 4
        THEN ConsoleResult(ud,
                 Msg("Usage: bucket <name> <balance> [bank_name] [account_number]"),
                 "usage")
        ELSE IF ~ParsesF64(parts[3])
        THEN ConsoleResult(ud,
                 Msg("Invalid balance. Please enter a valid number."),
                 "parse_error")
        ELSE LET bank_name == IF Len(parts) > 3 THEN parts[4] ELSE Empty
                 account_number == IF Len(parts) > 4 THEN parts[5] ELSE Empty
                 found == FindBank(ud.bank, bank_name, account_number)
                 bank == IF found # 0 THEN ud.bank[found]
                         ELSE [name |-> bank_name,
                               accountnumber |-> account_number,
                               balance |-> Zero]
                 banked == IF found # 0 THEN ud
                           ELSE [ud EXCEPT !.bank = Append(@, bank)]
             IN  IF FindByName(banked.bucket, parts[2]) # 0
                 THEN ConsoleResult(banked,
                          Msg("Bucket with name '") \o parts[2]
                              \o Msg("' already exists."),
                          "duplicate")
                 ELSE ConsoleResult(
                          [banked EXCEPT !.bucket =
                               Append(@, [name |-> parts[2],
                                          balance |-> F64(parts[3]),
                                          bank |-> bank])],
                          Empty, "added")

\* handle_tag
handle_tag(line, ud) ==
    LET parts == SplitWhitespace(Trim(line))
    IN  IF Len(parts) < 3
        THEN ConsoleResult(ud,
                 Msg("Usage: tag <name> <bucket_name> <description> "), "usage")
        ELSE LET description == IF Len(parts) > 3 THEN parts[4] ELSE Empty
                 found == FindByName(ud.bucket, parts[3])
             IN  IF found = 0
                 THEN ConsoleResult(ud,
                          Msg("Bucket with name '") \o parts[3]
                              \o Msg("' does not exist."),
                          "unresolved")
                 ELSE IF FindByName(ud.tag, parts[2]) # 0
                 THEN ConsoleResult(ud,
                          Msg("Tag with name '") \o parts[2]
                              \o Msg("' already exists."),
                          "duplicate")
                 ELSE ConsoleResult(
                          [ud EXCEPT !.tag =
                               Append(@, [name |-> parts[2],
                                          description |-> description,
                                          bucket |-> ud.bucket[found]])],
                          Empty, "added")

\* handle_transaction's match on the lowercased type word
ConsoleTransactionType(text) ==
    LET t == ToLowercase(text)
    IN  IF t = <<"i">> THEN "Income"
        ELSE IF t = <<"e">> THEN "Expense"
        ELSE "Invalid"

\* handle_transaction, the clock reading `timestamp`
handle_transaction(line, ud, timestamp) ==
    LET parts == SplitWhitespace(Trim(line))
    IN  IF Len(parts) < 3
        THEN ConsoleResult(ud,
                 Msg("Usage: txn <type> <amount> [tags] [description]"), "usage")
        ELSE IF ConsoleTransactionType(parts[2]) = "Invalid"
        THEN ConsoleResult(ud,
                 Msg("Invalid transaction type. Use 'income' or 'expense'."),
                 "type_error")
        ELSE IF ~ParsesF64(parts[3])
        THEN ConsoleResult(ud,
                 Msg("Invalid amount. Please enter a valid number."),
                 "parse_error")
        ELSE LET description == IF Len(parts) > 4
                                THEN Join(SubSeq(parts, 5, Len(parts)), " ")
                                ELSE Empty
                 pieces == IF Len(parts) > 3 THEN Split(parts[4], ",") ELSE <<>>
                 names == [i \in 1..Len(pieces) |-> Trim(pieces[i])]
                 missing == MissingTags(names, ud)
             IN  IF missing # {}
                 THEN LET first == CHOOSE i \in missing :
                                       \A j \in missing : i <= j
                      IN  ConsoleResult(ud,
                              Msg("Tag '") \o names[first]
                                  \o Msg("' does not exist. Please create it first."),
                              "unresolved")
                 ELSE ConsoleResult(
                          [ud EXCEPT !.transaction =
                               Append(@, [id |-> Len(ud.transaction) + 1,
                                          transaction_type |->
                                              ConsoleTransactionType(parts[2]),
                                          amount |-> F64(parts[3]),
                                          timestamp |-> timestamp,
                                          tags |-> ResolvedTags(names, ud),
                                          description |-> description])],
                          Empty, "added")

\* the words run_console matches a line against
HelpWord == <<"h", "e", "l", "p">>
ExitWord == <<"e", "x", "i", "t">>
BankWord == <<"b", "a", "n", "k">>
BucketWord == <<"b", "u", "c", "k", "e", "t">>
TagWord == <<"t", "a", "g">>
TxnWord == <<"t", "x", "n">>
LsWord == <<"l", "s">>

\* one pass of run_console's loop over the line read, the clock reading
\* `timestamp`: the trimmed line goes to the first branch that matches
\* (the help line and the listings, which change nothing, are abbreviated)
run_console(line, ud, timestamp) ==
    LET trimmed_input == Trim(line)
    IN  IF ToLowercase(trimmed_input) = HelpWord
        THEN ConsoleResult(ud, Msg("Available commands"), "help")
        ELSE IF ToLowercase(trimmed_input) = ExitWord
        THEN ConsoleResult(ud, Msg("Exiting the application..."), "exit")
        ELSE IF StartsWith(trimmed_input, BankWord \o <<" ">>)
        THEN handle_bank(trimmed_input, ud)
        ELSE IF StartsWith(trimmed_input, BucketWord \o <<" ">>)
        THEN handle_bucket(trimmed_input, ud)
        ELSE IF StartsWith(trimmed_input, TagWord \o <<" ">>)
        THEN handle_tag(trimmed_input, ud)
        ELSE IF StartsWith(trimmed_input, TxnWord \o <<" ">>)
        THEN handle_transaction(trimmed_input, ud, timestamp)
        ELSE IF ToLowercase(trimmed_input)
                    \in {LsWord, Join(<<LsWord, BankWord \o <<"s">>>>, " "),
                         Join(<<LsWord, BucketWord \o <<"s">>>>, " "),
                         Join(<<LsWord, TagWord \o <<"s">>>>, " ")}
        THEN ConsoleResult(ud, Msg("listing"), "list")
        ELSE ConsoleResult(ud, Msg("Unknown command: ") \o trimmed_input,
                           "unknown")

\* the words of the commands read
WordA == <<"a">>
WordB == <<"b">>
WordOne == <<"1">>
WordX == <<"x">>
WordD == <<"d">>
WordAB == <<"a", ",", "b">>
WordIncome == <<"i", "n", "c", "o", "m", "e">>

\* io::stdin().read_line: the words typed, a space between them, and the
\* newline that ends the line
ReadLine(words) == Join(words, " ") \o <<"\n">>

\* the bank, bucket, tag and txn lines read: the arguments of the usage
\* line, all or the first few of them
BankArgs ==
    {<<WordA>>, <<WordA, WordOne>>, <<WordA, WordOne, WordOne>>,
     <<WordA, WordOne, WordX>>, <<WordB, WordOne, WordOne>>}
BucketArgs ==
    {<<WordA>>, <<WordA, WordX, WordA, WordOne>>}
    \cup {<<name, WordOne>> \o rest :
             name \in {WordA, WordB},
             rest \in {<<>>, <<WordA>>, <<WordA, WordOne>>, <<WordB, WordOne>>}}
TagArgs ==
    {<<WordA>>, <<WordA, WordA>>}
    \cup {<<name, bucket, WordD>> :
             name \in {WordA, WordB}, bucket \in {WordA, WordB}}
TxnArgs ==
    {<<<<"i">>>>, <<<<"i">>, WordX, WordA, WordD>>}
    \cup {<<type, WordOne>> \o rest :
             type \in {<<"i">>, <<"E">>, WordIncome},
             rest \in {<<>>, <<WordA, WordD>>, <<WordAB, WordD>>,
                       <<WordA, WordD, WordD>>}}

BankLines == {ReadLine(<<BankWord>> \o args) : args \in BankArgs}
BucketLines == {ReadLine(<<BucketWord>> \o args) : args \in BucketArgs}
TagLines == {ReadLine(<<TagWord>> \o args) : args \in TagArgs}
TxnLines == {ReadLine(<<TxnWord>> \o args) : args \in TxnArgs}

\* the other lines read: help, the listings, a command word without
\* arguments, a word that is no command
OtherLines ==
    {ReadLine(<<HelpWord>>), ReadLine(<<LsWord>>),
     ReadLine(<<LsWord, BankWord \o <<"s">>>>), ReadLine(<<BankWord>>),
     ReadLine(<<WordX>>)}

\* run_console's loop reads `line` at the clock reading `timestamp`: an
\* index past the end of a Vec aborts the program, exit ends it
Read(line, timestamp) ==
    /\ Running
    /\ LET r == run_console(line, user_data, timestamp)
       IN  /\ user_data' = r.ud
           /\ panicked' = (r.outcome = "abort")
           /\ should_quit' = (r.outcome = "exit")
           /\ last' = r.outcome
    /\ UNCHANGED <<menu_state, input>>

\* Read of a bank line, as long as the store stays within the bounds
ConsoleBank ==
    \E line \in BankLines, timestamp \in 1..MaxTime :
        /\ WithinBounds(run_console(line, user_data, timestamp).ud)
        /\ Read(line, timestamp)

\* Read of a bucket line, as long as the store stays within the bounds
ConsoleBucket ==
    \E line \in BucketLines, timestamp \in 1..MaxTime :
        /\ WithinBounds(run_console(line, user_data, timestamp).ud)
        /\ Read(line, timestamp)

\* Read of a tag line, as long as the store stays within the bounds
ConsoleTag ==
    \E line \in TagLines, timestamp \in 1..MaxTime :
        /\ WithinBounds(run_console(line, user_data, timestamp).ud)
        /\ Read(line, timestamp)

\* Read of a txn line, as long as the store stays within the bounds
ConsoleTxn ==
    \E line \in TxnLines, timestamp \in 1..MaxTime :
        /\ WithinBounds(run_console(line, user_data, timestamp).ud)
        /\ Read(line, timestamp)

\* Read of another line, as long as the store stays within the bounds
ConsoleOther ==
    \E line \in OtherLines, timestamp \in 1..MaxTime :
        /\ WithinBounds(run_console(line, user_data, timestamp).ud)
        /\ Read(line, timestamp)

\* Read of the exit line
ConsoleExit ==
    \E timestamp \in 1..MaxTime :
        /\ Running
        /\ Read(ReadLine(<<ExitWord>>), timestamp)

\* run_console before its loop: an empty store
ConsoleInit ==
    /\ should_quit = FALSE
    /\ menu_state = [selected |-> 0, items |-> MenuItems]
    /\ user_data = NewUserData
    /\ input = NewInput
    /\ panicked = FALSE
    /\ last = "new"

ConsoleNext ==
    \/ ConsoleBank
    \/ ConsoleBucket
    \/ ConsoleTag
    \/ ConsoleTxn
    \/ ConsoleOther
    \/ ConsoleExit

ConsoleSpec == ConsoleInit /\ [][ConsoleNext]_vars

----------------------------------------------------------------------------
(* The commit validators on their own: add_bank, add_bucket, add_tag and   *)
(* add_transaction are functions of the slots, the store and the clock,    *)
(* applied here by the confirm of a form's last field to slots holding     *)
(* every text the model types and to stores the validators build.          *)

\* the texts typed into a field
TextsOf(field) == TextsOver(TypedChars(field), MaxLenOf(field))

\* the sequences without repetition of at most n elements of a set
DistinctSeqs(set, n) ==
    {s \in TextsOver(set, n) : \A i, j \in 1..Len(s) : s[i] = s[j] => i = j}

\* banks the bank form and the bucket form create, no two of the same name
\* and account number
CommitBanks ==
    {[name |-> <<"a">>, accountnumber |-> <<"1">>, balance |-> F64(<<"1">>)],
     [name |-> <<"a">>, accountnumber |-> <<>>, balance |-> Zero],
     [name |-> <<>>, accountnumber |-> <<"1">>, balance |-> Zero]}

\* stores of banks alone
BankStores ==
    {[bank |-> banks, bucket |-> <<>>, tag |-> <<>>, transaction |-> <<>>] :
        banks \in DistinctSeqs(CommitBanks, MaxPerKind)}

\* stores of banks and of buckets of distinct names on the first bank
BucketStores ==
    {[bank |-> banks,
      bucket |-> [i \in 1..Len(names) |->
                     [name |-> names[i], balance |-> F64(<<"1">>),
                      bank |-> banks[1]]],
      tag |-> <<>>, transaction |-> <<>>] :
        banks \in DistinctSeqs(CommitBanks, MaxPerKind) \ {<<>>},
        names \in DistinctSeqs({<<>>, <<"a">>}, MaxPerKind) \ {<<>>}}

CommitStores == BankStores \cup BucketStores \cup LedgerStores

RECURSIVE FieldTexts(_)
\* a text typed into each field of a sequence of fields
FieldTexts(fields) ==
    IF fields = <<>> THEN {<<>>}
    ELSE {<<text>> \o rest :
             text \in TextsOf(Head(fields)), rest \in FieldTexts(Tail(fields))}

\* the slots of a form holding texts typed into its fields, the editor on
\* the form's last field as switch_to_field leaves it
FilledForms(fields) ==
    {[[slot \in DOMAIN NewInput |->
          IF \E i \in 1..Len(fields) : SlotOf(fields[i]) = slot
          THEN texts[CHOOSE i \in 1..Len(fields) : SlotOf(fields[i]) = slot]
          ELSE NewInput[slot]]
      EXCEPT !.mode = Editing(texts[Len(fields)], ByteLen(texts[Len(fields)]),
                              fields[Len(fields)])] :
        texts \in FieldTexts(fields)}

\* a form of the selected kind filled in, over a store the validators build
CommitInit ==
    /\ should_quit = FALSE
    /\ \E selected \in 0..3 :
         /\ menu_state = [selected |-> selected, items |-> MenuItems]
         /\ input \in FilledForms(
                CASE selected = 0 -> BankFields
                  [] selected = 1 -> BucketFields
                  [] selected = 2 -> TagFields
                  [] selected = 3 -> TransactionFields)
    /\ user_data \in CommitStores
    /\ panicked = FALSE
    /\ last = "edit"

\* the confirm of the last field
FormCommit == \E timestamp \in 1..MaxTime : Enter(timestamp)

CommitNext == FormCommit

CommitSpec == CommitInit /\ [][CommitNext]_vars

----------------------------------------------------------------------------
(* Properties *)

\* the step confirms the last field of a form: the commit of `field`'s kind
Commit(field) ==
    /\ input.mode.kind = "Editing"
    /\ input.mode.field = field
    /\ \E timestamp \in 1..MaxTime : Enter(timestamp)

\* every slot of the pending entity is empty
SlotsEmpty(in) == \A slot \in Slots : in[slot] = <<>>

\* a stored bank has this name and account number
BankStored(ud, name, account) ==
    \E i \in 1..Len(ud.bank) :
        ud.bank[i].name = name /\ ud.bank[i].accountnumber = account

\* the names of the stored buckets, of the stored tags
BucketNamesOf(ud) == {ud.bucket[i].name : i \in 1..Len(ud.bucket)}
TagNamesOf(ud) == {ud.tag[i].name : i \in 1..Len(ud.tag)}

(* C1: in every reachable state no two stored banks (FundingSources) have  *)
(* the same name and the same account number.                              *)
C1_UniqueBanks ==
    \A i, j \in 1..Len(user_data.bank) :
        (/\ user_data.bank[i].name = user_data.bank[j].name
         /\ user_data.bank[i].accountnumber = user_data.bank[j].accountnumber)
            => i = j

\* two banks of one name are stored, the second created by a bucket commit
C1_Witness ==
    /\ last = "bucket_added_with_bank"
    /\ Len(user_data.bank) = 2
    /\ user_data.bank[1].name = user_data.bank[2].name

(* C2: in every reachable state no two stored buckets (Allocations) have   *)
(* the same name and no two stored tags (Labels) have the same name.       *)
C2_UniqueNames ==
    /\ \A i, j \in 1..Len(user_data.bucket) :
           user_data.bucket[i].name = user_data.bucket[j].name => i = j
    /\ \A i, j \in 1..Len(user_data.tag) :
           user_data.tag[i].name = user_data.tag[j].name => i = j

\* a bucket commit was just rejected for the name of the stored bucket, with
\* a tag stored as well
C2_Witness ==
    /\ last = "bucket_duplicate"
    /\ Len(user_data.bucket) = 1
    /\ input.bucket_name = user_data.bucket[1].name
    /\ Len(user_data.tag) = 1

(* C3: confirming the last field of a bank form whose balance text parses  *)
(* and whose (name, account) is not in the store appends exactly one bank  *)
(* with the typed name, account and parsed balance at the end of the bank  *)
(* collection, changes no other collection and leaves every slot empty.    *)
C3_BankCommit ==
    [][(/\ Commit("BankBalance")
        /\ ParsesF64(input.bank_balance)
        /\ ~BankStored(user_data, input.bank_name, input.bank_account))
       => (/\ user_data'.bank =
                  Append(user_data.bank,
                         [name |-> input.bank_name,
                          accountnumber |-> input.bank_account,
                          balance |-> F64(input.bank_balance)])
           /\ user_data'.bucket = user_data.bucket
           /\ user_data'.tag = user_data.tag
           /\ user_data'.transaction = user_data.transaction
           /\ SlotsEmpty(input'))]_vars

\* a bank "a" / "1" / 1 was just committed after another bank
C3_Witness ==
    /\ last = "bank_added"
    /\ Len(user_data.bank) = 2
    /\ user_data.bank[2] =
           [name |-> <<"a">>, accountnumber |-> <<"1">>,
            balance |-> [neg |-> FALSE, whole |-> 1, frac |-> <<>>]]
    /\ SlotsEmpty(input)

\* the status message of a rejected duplicate bank
DuplicateBankMessage(name, account) ==
    <<"Bank with name '">> \o name \o <<"' and account '">> \o account
        \o <<"' already exists">>

(* C4 as claimed: confirming the last field of a bank form whose (name,    *)
(* account) is that of a stored bank leaves the store as it was and sets   *)
(* the duplicate message naming the name and the account.                  *)
C4_Original ==
    [][(/\ Commit("BankBalance")
        /\ BankStored(user_data, input.bank_name, input.bank_account))
       => (/\ user_data' = user_data
           /\ input'.message =
                  DuplicateBankMessage(input.bank_name, input.bank_account))]_vars

(* C4 amended: confirming the last field of a bank form whose balance text *)
(* parses and whose (name, account) is that of a stored bank leaves the    *)
(* store as it was and sets the duplicate message naming the name and the  *)
(* account; with a balance text that does not parse the store is also left *)
(* as it was, and the message is the parse error.                          *)
C4_DuplicateBank ==
    [][(/\ Commit("BankBalance")
        /\ BankStored(user_data, input.bank_name, input.bank_account))
       => (/\ user_data' = user_data
           /\ input'.message =
                  IF ParsesF64(input.bank_balance)
                  THEN DuplicateBankMessage(input.bank_name, input.bank_account)
                  ELSE <<"Invalid balance format">>)]_vars

\* a bank commit was just rejected as a duplicate of the stored bank "a" / "1"
C4_Witness ==
    /\ last = "bank_duplicate"
    /\ input.bank_name = <<"a">>
    /\ input.bank_account = <<"1">>
    /\ Cardinality({i \in 1..Len(user_data.bank) :
                        /\ user_data.bank[i].name = <<"a">>
                        /\ user_data.bank[i].accountnumber = <<"1">>}) = 1
    /\ input.message = <<"Bank with name '", "a", "' and account '", "1",
                         "' already exists">>

\* the f64 0.0, written out
ZeroBalance == [neg |-> FALSE, whole |-> 0, frac |-> <<>>]

\* the bucket form is valid: its balance parses and its name is unused
ValidBucketForm ==
    /\ ParsesF64(input.bucket_balance)
    /\ input.bucket_name \notin BucketNamesOf(user_data)

(* C5: confirming the last field of a valid bucket form whose (bank name,  *)
(* account) is that of no stored bank appends exactly one bank with that   *)
(* name, that account and balance 0, and exactly one bucket embedding that *)
(* new bank; the store grows by 2.                                         *)
C5_BucketCreatesBank ==
    [][(/\ Commit("BucketAccountNumber")
        /\ ValidBucketForm
        /\ ~BankStored(user_data, input.bucket_bank_name, input.bucket_account))
       => LET fresh == [name |-> input.bucket_bank_name,
                        accountnumber |-> input.bucket_account,
                        balance |-> ZeroBalance]
          IN  /\ user_data'.bank = Append(user_data.bank, fresh)
              /\ user_data'.bucket =
                     Append(user_data.bucket,
                            [name |-> input.bucket_name,
                             balance |-> F64(input.bucket_balance),
                             bank |-> fresh])
              /\ user_data'.tag = user_data.tag
              /\ user_data'.transaction = user_data.transaction
              /\ Size(user_data') = Size(user_data) + 2]_vars

\* a bucket commit just created the bank "a" / "1" of balance 0 next to a
\* bank that was stored before, and the new bucket embeds it
C5_Witness ==
    /\ last = "bucket_added_with_bank"
    /\ Len(user_data.bank) = 2
    /\ user_data.bank[2] =
           [name |-> <<"a">>, accountnumber |-> <<"1">>, balance |-> ZeroBalance]
    /\ user_data.bucket[Len(user_data.bucket)].bank = user_data.bank[2]

(* C6: confirming the last field of a valid bucket form whose (bank name,  *)
(* account) is that of a stored bank appends no bank and appends exactly   *)
(* one bucket, whose embedded bank equals that stored bank in name,        *)
(* account and balance.                                                    *)
C6_BucketCopiesBank ==
    [][(/\ Commit("BucketAccountNumber")
        /\ ValidBucketForm
        /\ BankStored(user_data, input.bucket_bank_name, input.bucket_account))
       => /\ user_data'.bank = user_data.bank
          /\ \E i \in 1..Len(user_data.bank) :
                /\ user_data.bank[i].name = input.bucket_bank_name
                /\ user_data.bank[i].accountnumber = input.bucket_account
                /\ user_data'.bucket =
                       Append(user_data.bucket,
                              [name |-> input.bucket_name,
                               balance |-> F64(input.bucket_balance),
                               bank |-> user_data.bank[i]])
          /\ user_data'.tag = user_data.tag
          /\ user_data'.transaction = user_data.transaction]_vars

\* a bucket was just committed onto a stored bank of balance 1, which it copies
C6_Witness ==
    /\ last = "bucket_added"
    /\ Len(user_data.bank) = 1
    /\ user_data.bank[1].balance.whole = 1
    /\ user_data.bucket[Len(user_data.bucket)].bank = user_data.bank[1]

\* the status message of a tag rejected for its missing bucket
MissingBucketMessage(bucket) ==
    <<"Bucket with name '">> \o bucket \o <<"' does not exist">>

(* C7 as claimed: confirming the last field of a tag form whose bucket     *)
(* name is that of no stored bucket leaves the store as it was and sets    *)
(* the message naming the missing bucket.                                  *)
C7_Original ==
    [][(/\ Commit("TagDescription")
        /\ input.tag_bucket \notin BucketNamesOf(user_data))
       => (/\ user_data' = user_data
           /\ input'.message = MissingBucketMessage(input.tag_bucket))]_vars

(* C7 amended: confirming the last field of a tag form whose bucket name   *)
(* is that of no stored bucket leaves the store as it was (no bucket is    *)
(* created); the message names the missing bucket when the tag's name is   *)
(* not yet stored, and is the duplicate-tag message when it is.            *)
C7_MissingBucket ==
    [][(/\ Commit("TagDescription")
        /\ input.tag_bucket \notin BucketNamesOf(user_data))
       => (/\ user_data' = user_data
           /\ input'.message =
                  IF input.tag_name \in TagNamesOf(user_data)
                  THEN <<"Tag with name '">> \o input.tag_name
                           \o <<"' already exists">>
                  ELSE MissingBucketMessage(input.tag_bucket))]_vars

\* a tag commit was just rejected for the missing bucket "a" while another
\* bucket is stored
C7_Witness ==
    /\ last = "tag_unresolved"
    /\ Len(user_data.bucket) = 1
    /\ input.tag_bucket = <<"a">>
    /\ input.message = <<"Bucket with name '", "a", "' does not exist">>

(* C8: in every reachable state the k-th stored transaction (LedgerEntry)  *)
(* has id k.                                                               *)
C8_SequentialIds ==
    \A k \in 1..Len(user_data.transaction) : user_data.transaction[k].id = k

\* a second transaction was just committed, after entities of other kinds
C8_Witness ==
    /\ last = "transaction_added"
    /\ Len(user_data.transaction) = 2
    /\ Len(user_data.bank) = 1
    /\ Len(user_data.bucket) = 1

\* the comma-separated names of the tags text
NamesTyped(text) ==
    LET pieces == Split(text, ",")
    IN  [i \in 1..Len(pieces) |-> Trim(pieces[i])]

(* C9: confirming the last field of a transaction form whose tags text is  *)
(* not empty and has a comma-separated name that is no stored tag's name   *)
(* changes no collection, also when earlier names are stored tags' names.  *)
C9_UnknownTagAborts ==
    [][(/\ Commit("TransactionDescription")
        /\ input.transaction_tags # <<>>
        /\ \E i \in 1..Len(NamesTyped(input.transaction_tags)) :
               NamesTyped(input.transaction_tags)[i] \notin TagNamesOf(user_data))
       => user_data' = user_data]_vars

\* a transaction with tags text "a," was just rejected for its second name,
\* the first being the name of a stored tag
C9_Witness ==
    /\ last = "transaction_unresolved"
    /\ input.transaction_tags = <<"a", ",">>
    /\ <<"a">> \in TagNamesOf(user_data)
    /\ user_data.transaction = <<>>

(* C10: a transaction appended by confirming the last field of the         *)
(* transaction form has the kind the type text spells (case-insensitive    *)
(* i/income or e/expense), the amount the amount text parses to, the typed *)
(* description, and as tags, in input order, one copy of the stored tag of *)
(* each comma-separated name of the tags text; none for an empty text.     *)
C10_TransactionCarriesInput ==
    [][(/\ Commit("TransactionDescription")
        /\ Len(user_data'.transaction) > Len(user_data.transaction))
       => LET t == user_data'.transaction[Len(user_data'.transaction)]
              kind == ToLowercase(input.transaction_type)
              names == NamesTyped(input.transaction_tags)
          IN  /\ user_data'.transaction = Append(user_data.transaction, t)
              /\ \/ /\ kind \in {<<"i">>, <<"i", "n", "c", "o", "m", "e">>}
                    /\ t.transaction_type = "Income"
                 \/ /\ kind \in {<<"e">>, <<"e", "x", "p", "e", "n", "s", "e">>}
                    /\ t.transaction_type = "Expense"
              /\ ParsesF64(input.transaction_amount)
              /\ t.amount = F64(input.transaction_amount)
              /\ t.description = input.transaction_description
              /\ IF input.transaction_tags = <<>>
                 THEN t.tags = <<>>
                 ELSE /\ Len(t.tags) = Len(names)
                      /\ \A i \in 1..Len(names) :
                            /\ t.tags[i].name = names[i]
                            /\ \E j \in 1..Len(user_data.tag) :
                                   t.tags[i] = user_data.tag[j]]_vars

\* an expense of amount 1 with description "d" was just committed with tags
\* text "b,a": two tags, in input order, the reverse of their store order
C10_Witness ==
    /\ last = "transaction_added"
    /\ Len(user_data.tag) = 2
    /\ user_data.tag[1].name = <<"a">>
    /\ user_data.tag[2].name = <<"b">>
    /\ LET t == user_data.transaction[Len(user_data.transaction)]
       IN  /\ t.transaction_type = "Expense"
           /\ t.amount.whole = 1
           /\ t.description = <<"d">>
           /\ t.tags = <<user_data.tag[2], user_data.tag[1]>>

\* the last field of each form, whose confirm runs the commit validator
LastFields ==
    {"BankBalance", "BucketAccountNumber", "TagDescription",
     "TransactionDescription"}

\* the first field of each form
FirstFields == {"BankName", "BucketName", "TagName", "TransactionType"}

\* the success message of the validator behind a last field
SuccessMessage(field) ==
    CASE field = "BankBalance" -> Msg("Bank added successfully")
      [] field = "BucketAccountNumber" -> Msg("Bucket added successfully")
      [] field = "TagDescription" -> Msg("Tag added successfully")
      [] field = "TransactionDescription" ->
            Msg("Transaction added successfully")

\* this step confirms a last field and the validator appends an entity
CommitSucceeds ==
    /\ \E field \in LastFields : Commit(field)
    /\ user_data' # user_data

(* C11: after a successful commit of any entity kind the status message    *)
(* held by the application state, the Navigator back in Idle, is that      *)
(* kind's success message ("Bank added successfully" for a bank).          *)
C11_SuccessMessage ==
    [][CommitSucceeds
       => (/\ input'.mode = Normal
           /\ input'.message = SuccessMessage(input.mode.field))]_vars

\* the validator behind the last field `field` rejects the pending entity
\* `in` against the store `ud`: a number or the type does not parse, the
\* identity is stored already, or a named bucket or tag is not stored
Rejected(in, ud, field) ==
    CASE field = "BankBalance" ->
            \/ ~ParsesF64(in.bank_balance)
            \/ BankStored(ud, in.bank_name, in.bank_account)
      [] field = "BucketAccountNumber" ->
            \/ ~ParsesF64(in.bucket_balance)
            \/ in.bucket_name \in BucketNamesOf(ud)
      [] field = "TagDescription" ->
            \/ in.tag_name \in TagNamesOf(ud)
            \/ in.tag_bucket \notin BucketNamesOf(ud)
      [] field = "TransactionDescription" ->
            \/ ParseTransactionType(in.transaction_type) = "Invalid"
            \/ ~ParsesF64(in.transaction_amount)
            \/ /\ in.transaction_tags # <<>>
               /\ \E i \in 1..Len(NamesTyped(in.transaction_tags)) :
                      NamesTyped(in.transaction_tags)[i] \notin TagNamesOf(ud)

\* this step confirms a last field and the validator rejects the entity
CommitRejected ==
    \E field \in LastFields :
        Commit(field) /\ Rejected(input, user_data, field)

(* C12: confirming the last field of any form leaves the Navigator in Idle *)
(* (InputMode::Normal) in the very next state, whether the validator       *)
(* appended the entity or rejected it.                                     *)
C12_CommitReturnsToIdle ==
    [][(\E field \in LastFields : Commit(field))
       => input'.mode = Normal]_vars

\* a tag commit was just rejected for its missing bucket, and the Navigator
\* is in Idle with the typed name still in its slot
C12_Witness ==
    /\ last = "tag_unresolved"
    /\ input.mode = Normal
    /\ input.tag_name = <<"a">>

(* C13: every rejected commit leaves a non-empty status message in         *)
(* input.message, and no step taken in Idle changes a non-empty message    *)
(* except the one that begins the next form.                               *)
C13_RejectionMessageStays ==
    [][/\ CommitRejected => input'.message # Empty
       /\ (/\ input.mode = Normal
           /\ input.message # Empty
           /\ input'.mode = Normal)
          => input'.message = input.message]_vars

\* the rejection message of a bank commit is still the status message after
\* a key pressed in Idle moved the menu selection
C13_Witness ==
    /\ last = "idle"
    /\ input.mode = Normal
    /\ input.message = Msg("Invalid balance format")
    /\ menu_state.selected = 2

\* every slot of the pending entity holds in `b` what it holds in `a`
SlotsSame(a, b) == \A slot \in Slots : b[slot] = a[slot]

(* C14 as claimed: after a rejected commit, the Navigator back in Idle,    *)
(* every slot of the pending entity is empty.                              *)
C14_Original ==
    [][CommitRejected => SlotsEmpty(input')]_vars

(* C14: a rejected commit leaves every slot of the pending entity holding  *)
(* the typed text, the Navigator in Idle; the slots are emptied by the     *)
(* step that leaves Idle to begin the next form.                           *)
C14_RejectedSlotsKept ==
    [][/\ CommitRejected
          => (input'.mode = Normal /\ SlotsSame(input, input'))
       /\ (input.mode = Normal /\ input'.mode # Normal)
          => SlotsEmpty(input')]_vars

\* a bank commit was just rejected for its balance, and the typed name and
\* account are still in their slots
C14_Witness ==
    /\ last = "bank_parse_error"
    /\ input.mode = Normal
    /\ input.bank_name = <<"a">>
    /\ input.bank_account = <<"1">>

(* C15: a rejected commit of any entity kind leaves the four collections   *)
(* as they were; in particular a bucket rejected for its balance or its    *)
(* name leaves no bank created for it behind.                              *)
C15_RejectedStoreKept ==
    [][CommitRejected => user_data' = user_data]_vars

\* a bucket commit naming a bank that is not stored was just rejected for
\* its name, with no bank stored afterwards
C15_Witness ==
    /\ last = "bucket_duplicate"
    /\ input.bucket_bank_name = <<"a">>
    /\ ~BankStored(user_data, input.bucket_bank_name, input.bucket_account)

(* C16: the cancel key (Esc) pressed in any field of any form puts the     *)
(* Navigator in Idle in the next state and changes none of the four        *)
(* collections.                                                            *)
C16_CancelReturnsToIdle ==
    [][EditEsc => (input'.mode = Normal /\ user_data' = user_data)]_vars

\* Esc was just pressed in a tag form with a bucket name typed, a bucket
\* being stored
C16_Witness ==
    /\ last = "esc"
    /\ input.mode = Normal
    /\ input.tag_bucket = <<"a">>
    /\ Len(user_data.bucket) = 1

(* C17 as claimed: in the state that follows a cancel (Esc) every slot of  *)
(* the pending entity is empty.                                            *)
C17_Original ==
    [][EditEsc => SlotsEmpty(input')]_vars

(* C17: the cancel key (Esc) discards the Field Editor's text and cursor   *)
(* (no field is active afterwards) and empties the status message, while   *)
(* every slot of the pending entity keeps what was typed; no step taken in *)
(* Idle changes a slot except the one that begins the next form, which     *)
(* empties them all.                                                       *)
C17_CancelKeepsSlots ==
    [][/\ EditEsc
          => (/\ input'.mode = Normal
              /\ input'.message = Empty
              /\ SlotsSame(input, input'))
       /\ (input.mode = Normal /\ input'.mode = Normal)
          => SlotsSame(input, input')
       /\ (input.mode = Normal /\ input'.mode # Normal)
          => SlotsEmpty(input')]_vars

\* Esc was just pressed in a bank form, and the typed name is still in its
\* slot
C17_Witness ==
    /\ last = "esc"
    /\ input.mode = Normal
    /\ input.bank_name = <<"a">>

\* the fixed field order of the form that `field` belongs to
OrderOf(field) ==
    CASE field \in Range(BankFields) -> BankFields
      [] field \in Range(BucketFields) -> BucketFields
      [] field \in Range(TagFields) -> TagFields
      [] field \in Range(TransactionFields) -> TransactionFields

\* the position of `field` in its form
IndexOf(field) ==
    CHOOSE i \in 1..Len(OrderOf(field)) : OrderOf(field)[i] = field

\* the field after, the field before `field` in its form
Successor(field) == OrderOf(field)[IndexOf(field) + 1]
Predecessor(field) == OrderOf(field)[IndexOf(field) - 1]

\* this step is the confirm key (Enter) pressed in a field that is not the
\* last of its form
ConfirmNonLast ==
    /\ input.mode.kind = "Editing"
    /\ input.mode.field \notin LastFields
    /\ \E timestamp \in 1..MaxTime : Enter(timestamp)

\* the Field Editor holds `text` for `field`, the cursor at the end of it
EditorAtEnd(in, field, text) ==
    in.mode = Editing(text, ByteLen(text), field)

(* C18: a confirm on a non-last field makes the successor in the fixed     *)
(* per-kind order the active field, with that field's slot loaded into the *)
(* editor; no validator runs (the message and the mode stay), and neither  *)
(* the store nor any slot changes.                                         *)
C18_ConfirmAdvances ==
    [][ConfirmNonLast
       => (/\ EditorAtEnd(input', Successor(input.mode.field),
                          input[SlotOf(Successor(input.mode.field))])
           /\ SlotsSame(input, input')
           /\ input'.message = input.message
           /\ user_data' = user_data)]_vars

\* a confirm just moved a bucket form from its balance field, where "1" was
\* typed, to its empty bank-name field
C18_Witness ==
    /\ last = "next"
    /\ input.mode = Editing(Empty, 0, "BucketBankName")
    /\ input.bucket_balance = <<"1">>
    /\ input.bucket_name = <<"a">>

(* C19: the previous key (Up) on a non-first field makes the predecessor   *)
(* the active field and loads that field's slot into the editor with the   *)
(* cursor at the end of the text; on a first field it changes nothing.     *)
(* In both cases the slots and the store stay as they were.                *)
C19_PreviousLoadsSlot ==
    [][EditPrev
       => (/\ IF input.mode.field \in FirstFields
              THEN input'.mode = input.mode
              ELSE EditorAtEnd(input', Predecessor(input.mode.field),
                               input[SlotOf(Predecessor(input.mode.field))])
           /\ SlotsSame(input, input')
           /\ input'.message = input.message
           /\ user_data' = user_data)]_vars

\* the previous key just moved a bucket form back to its balance field and
\* loaded the two-byte text typed there, the cursor at byte 2
C19_Witness ==
    /\ last = "prev"
    /\ input.mode = Editing(<<"é">>, 2, "BucketBalance")

(* C20: in every state where a non-first field is being edited, the        *)
(* previous key followed by the confirm key gives the same field with the  *)
(* editor holding the same text and the cursor at that text's length, and  *)
(* every slot, the message and the store as they were.                     *)
C20_PreviousThenConfirm ==
    (input.mode.kind = "Editing" /\ input.mode.field \notin FirstFields)
    => \A timestamp \in 1..MaxTime :
           LET field == input.mode.field
               back == move_to_previous_field(input, field)
               forth == move_to_next_field(back, user_data, back.mode.field,
                                           timestamp)
           IN  /\ EditorAtEnd(forth.in, field, input.mode.input)
               /\ SlotsSame(input, forth.in)
               /\ forth.in.message = input.message
               /\ forth.ud = user_data

\* previous then confirm just came back to the balance field of a bucket
\* form with the two-byte text typed there, the cursor now at its length
C20_Witness ==
    /\ last = "prev_next"
    /\ input.mode = Editing(<<"é">>, 2, "BucketBalance")

(* C21: in every reachable Editing state the slot of the pending entity    *)
(* named by the active field holds the Field Editor's live text, so the    *)
(* commit validator reads the latest typed text.                           *)
C21_SlotFollowsEditor ==
    input.mode.kind = "Editing"
    => input[SlotOf(input.mode.field)] = input.mode.input

\* a character was just typed into the name field of a tag form, and the
\* slot tag_name holds it
C21_Witness ==
    /\ last = "edit"
    /\ input.mode = Editing(<<"a">>, 1, "TagName")
    /\ input.tag_name = <<"a">>

\* the four collections of the store
Collections == {"bank", "bucket", "tag", "transaction"}

\* the sequence `old` is a prefix of the sequence `new`
IsPrefix(old, new) ==
    /\ Len(old) <= Len(new)
    /\ \A i \in 1..Len(old) : new[i] = old[i]

(* C22: every collection is append-only: in every step each of the four    *)
(* collections of the new state has the collection of the old state as a   *)
(* prefix, so no stored entity is changed, reordered or removed.           *)
C22_AppendOnly ==
    [][\/ user_data' = user_data
       \/ \A kind \in Collections :
             IsPrefix(user_data[kind], user_data'[kind])]_vars

\* a bucket commit just created a second bank, a bank with another account
\* number being stored before
C22_Witness ==
    /\ last = "bucket_added_with_bank"
    /\ Len(user_data.bank) = 2
    /\ user_data.bank[1].accountnumber # user_data.bank[2].accountnumber
    /\ user_data.bank[1].balance # Zero

(* C23: the store changes only in a step that confirms the last field of a *)
(* form; character inserts, backspaces, previous moves, confirms on other  *)
(* fields, cancel, beginning a form and every key pressed in Idle leave    *)
(* the four collections unchanged.                                         *)
C23_StoreChangesOnlyAtCommit ==
    [][user_data' # user_data
       => (/\ input.mode.kind = "Editing"
           /\ input.mode.field \in LastFields
           /\ \E timestamp \in 1..MaxTime : Enter(timestamp))]_vars

\* a tag commit just appended the first tag, after the steps that typed and
\* confirmed its three fields
C23_Witness ==
    /\ last = "tag_added"
    /\ Len(user_data.tag) = 1
    /\ user_data.tag[1].name = <<"a">>
    /\ user_data.tag[1].description = <<"d">>

\* the Kind texts of an income, of an expense, as compared after lowercasing
IncomeTexts == {<<"i">>, <<"i", "n", "c", "o", "m", "e">>}
ExpenseTexts == {<<"e">>, <<"e", "x", "p", "e", "n", "s", "e">>}

\* the message of a transaction commit whose Kind text is not accepted
InvalidTypeMessage ==
    Msg("Invalid transaction type. Use 'i' for income or 'e' for expense")

\* the step appends one transaction of the type `kind`
AppendsTransactionOfType(kind) ==
    /\ Len(user_data'.transaction) = Len(user_data.transaction) + 1
    /\ user_data'.transaction[Len(user_data'.transaction)].transaction_type
           = kind

(* C24: a transaction commit accepts the Kind text exactly when its        *)
(* lowercase form is "i" or "income" (an Income) or "e" or "expense" (an   *)
(* Expense): an accepted Kind never gives the invalid-type message, and    *)
(* when the amount and the tags pass as well a transaction of that type is *)
(* appended; any other Kind text, the empty one included, gives the        *)
(* invalid-type message and appends nothing.                               *)
C24_KindParsing ==
    [][Commit("TransactionDescription")
       => LET lower == ToLowercase(input.transaction_type)
              passes ==
                  /\ ParsesF64(input.transaction_amount)
                  /\ \/ input.transaction_tags = <<>>
                     \/ \A i \in 1..Len(NamesTyped(input.transaction_tags)) :
                            NamesTyped(input.transaction_tags)[i]
                                \in TagNamesOf(user_data)
          IN  IF lower \in IncomeTexts \cup ExpenseTexts
              THEN /\ input'.message # InvalidTypeMessage
                   /\ passes
                      => AppendsTransactionOfType(
                             IF lower \in IncomeTexts THEN "Income"
                             ELSE "Expense")
              ELSE /\ input'.message = InvalidTypeMessage
                   /\ user_data' = user_data]_vars

\* a transaction commit with an empty Kind text and a valid amount was just
\* rejected for its type
C24_Witness ==
    /\ last = "transaction_type_error"
    /\ input.transaction_type = <<>>
    /\ input.transaction_amount = <<"1">>
    /\ user_data.transaction = <<>>

\* this step is the confirm key (Enter) pressed in the last field `field`
ConfirmLast(field) ==
    /\ input.mode.kind = "Editing"
    /\ input.mode.field = field
    /\ \E timestamp \in 1..MaxTime : Enter(timestamp)

\* a name of the typed tags text is no stored tag's name
SomeTagMissing(in, ud) ==
    /\ in.transaction_tags # <<>>
    /\ \E i \in 1..Len(NamesTyped(in.transaction_tags)) :
           NamesTyped(in.transaction_tags)[i] \notin TagNamesOf(ud)

(* C25: each validator checks parse first, then the identity key, then the *)
(* references, and reports the first check that fails: a bank or a bucket  *)
(* with both an unparsable balance and a stored key gets the parse         *)
(* message; a tag with both a stored name and a missing bucket gets the    *)
(* duplicate message; a transaction with an invalid type gets the type     *)
(* message whatever else is wrong, and one with a valid type, an           *)
(* unparsable amount and an unknown tag gets the amount message.           *)
C25_FirstFailingCheck ==
    [][/\ (/\ ConfirmLast("BankBalance")
           /\ ~ParsesF64(input.bank_balance)
           /\ BankStored(user_data, input.bank_name, input.bank_account))
          => input'.message = Msg("Invalid balance format")
       /\ (/\ ConfirmLast("BucketAccountNumber")
           /\ ~ParsesF64(input.bucket_balance)
           /\ input.bucket_name \in BucketNamesOf(user_data))
          => input'.message = Msg("Invalid balance format")
       /\ (/\ ConfirmLast("TagDescription")
           /\ input.tag_name \in TagNamesOf(user_data)
           /\ input.tag_bucket \notin BucketNamesOf(user_data))
          => input'.message =
                 Msg("Tag with name '") \o input.tag_name
                     \o Msg("' already exists")
       /\ (/\ ConfirmLast("TransactionDescription")
           /\ ToLowercase(input.transaction_type)
                  \notin IncomeTexts \cup ExpenseTexts)
          => input'.message = InvalidTypeMessage
       /\ (/\ ConfirmLast("TransactionDescription")
           /\ ToLowercase(input.transaction_type)
                  \in IncomeTexts \cup ExpenseTexts
           /\ ~ParsesF64(input.transaction_amount)
           /\ SomeTagMissing(input, user_data))
          => input'.message = Msg("Invalid amount format")]_vars

\* a tag commit with the name of the stored tag and a bucket name that no
\* stored bucket has was just rejected as a duplicate
C25_Witness ==
    /\ last = "tag_duplicate"
    /\ Len(user_data.tag) = 1
    /\ input.tag_name = user_data.tag[1].name
    /\ input.tag_bucket \notin BucketNamesOf(user_data)

\* the entities stored in a collection
Stored(collection) == {collection[i] : i \in 1..Len(collection)}

(* C26: in every reachable state the bank embedded in every stored bucket  *)
(* equals a stored bank, the bucket embedded in every stored tag equals a  *)
(* stored bucket, and every tag embedded in every stored transaction       *)
(* equals a stored tag, field for field.                                   *)
C26_ReferentialIntegrity ==
    /\ \A b \in Stored(user_data.bucket) : b.bank \in Stored(user_data.bank)
    /\ \A t \in Stored(user_data.tag) : t.bucket \in Stored(user_data.bucket)
    /\ \A x \in Stored(user_data.transaction) :
           \A i \in 1..Len(x.tags) : x.tags[i] \in Stored(user_data.tag)

\* a bank, a bucket of balance 1 on it, a tag on the bucket and a
\* transaction carrying the tag are stored
C26_Witness ==
    /\ Len(user_data.bank) = 1
    /\ Len(user_data.bucket) = 1
    /\ user_data.bucket[1].balance # Zero
    /\ Len(user_data.tag) = 1
    /\ Len(user_data.transaction) = 1
    /\ user_data.transaction[1].tags = <<user_data.tag[1]>>

\* the first field of the form of each entity kind, in menu order: banks,
\* buckets, tags, transactions
FirstFieldOfKind == <<"BankName", "BucketName", "TagName", "TransactionType">>

(* C27: the step that begins a form from Idle puts the Navigator in        *)
(* Editing at the first field of the selected kind with an empty editor    *)
(* and cursor 0, leaves every slot of the pending entity and the status    *)
(* message empty, and does not change the store.                           *)
C27_BeginIsClean ==
    [][(input.mode = Normal /\ input'.mode # Normal)
       => (/\ menu_state.selected \in 0..3
           /\ input'.mode =
                  Editing(Empty, 0, FirstFieldOfKind[menu_state.selected + 1])
           /\ SlotsEmpty(input')
           /\ input'.message = Empty
           /\ user_data' = user_data)]_vars

\* a transaction form was just begun, a tag being stored
C27_Witness ==
    /\ last = "start"
    /\ input.mode = Editing(Empty, 0, "TransactionType")
    /\ Len(user_data.tag) = 1

\* the confirms still needed to finish the form from `field`: n - i + 1 for
\* the field at position i of a form with n fields
ConfirmsLeft(field) == Len(OrderOf(field)) - IndexOf(field) + 1

\* this step is the confirm key (Enter) pressed in any field
ConfirmAny ==
    /\ input.mode.kind = "Editing"
    /\ \E timestamp \in 1..MaxTime : Enter(timestamp)

\* a step taken in Editing keeps the form a straight line: a confirm with
\* more than one confirm left moves to a field of the same form with one
\* confirm less left, without running a validator; the confirm with one left
\* goes to Idle; a character insert or a backspace stays in the field; and
\* Editing is left only by the final confirm and by cancel
StraightLine ==
    input.mode.kind = "Editing"
    => /\ ConfirmAny
          => IF ConfirmsLeft(input.mode.field) > 1
             THEN /\ input'.mode.kind = "Editing"
                  /\ OrderOf(input'.mode.field) = OrderOf(input.mode.field)
                  /\ ConfirmsLeft(input'.mode.field)
                         = ConfirmsLeft(input.mode.field) - 1
                  /\ input'.message = input.message
                  /\ user_data' = user_data
             ELSE input'.mode = Normal
       /\ (EditChar \/ EditBackspace)
          => (/\ input'.mode.kind = "Editing"
              /\ input'.mode.field = input.mode.field)
       /\ input'.mode = Normal
          => \/ ConfirmAny /\ ConfirmsLeft(input.mode.field) = 1
             \/ EditEsc

(* C28: every form is a straight line that terminates: from the field at   *)
(* position i of a form with n fields, n - i + 1 confirms, with any        *)
(* character edits in between, bring the Navigator back to Idle and run    *)
(* the validator once, on the last of them; Editing is left only by that   *)
(* confirm and by cancel. Every step taken in Editing therefore keeps the  *)
(* form a straight line and leaves the program running for the confirms    *)
(* that are still to come.                                                 *)
C28_FormTerminates ==
    [][StraightLine /\ (input.mode.kind = "Editing" => ~panicked')]_vars

\* this step is the Down key pressed in Editing
DownStep ==
    /\ input.mode.kind = "Editing"
    /\ \E timestamp \in 1..MaxTime : Down(timestamp)

(* C29: in Editing the Down key only moves to the next field, as the help  *)
(* line says ("Prev/Next Field"): after it the Navigator is still in       *)
(* Editing, in the same form, and the store and the status message are as  *)
(* they were.                                                              *)
C29_DownOnlyMoves ==
    [][DownStep
       => (/\ input'.mode.kind = "Editing"
           /\ OrderOf(input'.mode.field) = OrderOf(input.mode.field)
           /\ input'.message = input.message
           /\ user_data' = user_data)]_vars

(* C30: in every reachable Editing state the cursor position equals the    *)
(* length of the Field Editor's text, whatever characters were typed       *)
(* (multi-byte ones included), removed or reloaded by field moves, so that *)
(* no insert and no backspace ever fails.                                  *)
C30_CursorAtEnd ==
    /\ ~panicked
    /\ input.mode.kind = "Editing"
       => input.mode.cursor_position = ByteLen(input.mode.input)

\* the form of each entity kind, in menu order: banks, buckets, tags,
\* transactions
FormOfKind == <<BankFields, BucketFields, TagFields, TransactionFields>>

(* C31: in every reachable Editing state the menu selection is one of the  *)
(* four entity kinds and the active field is a field of that kind's form:  *)
(* the selection does not change while Editing and field moves stay within *)
(* the form.                                                               *)
C31_FieldOfSelectedKind ==
    input.mode.kind = "Editing"
    => /\ menu_state.selected \in 0..3
       /\ input.mode.field \in Range(FormOfKind[menu_state.selected + 1])

\* a confirm just moved a tag form, begun with Tags selected, to its last
\* field
C31_Witness ==
    /\ last = "next"
    /\ menu_state.selected = 2
    /\ input.mode.kind = "Editing"
    /\ input.mode.field = "TagDescription"

(* C32: the status message is empty in every reachable Editing state; it   *)
(* becomes a non-empty text only in a step that confirms a last field and  *)
(* is rejected, so a non-empty message is found only in Idle and is the    *)
(* outcome of the most recent commit attempt.                              *)
C32_MessageOnlyFromCommit ==
    [][/\ input'.mode.kind = "Editing" => input'.message = Empty
       /\ (input'.message # Empty /\ input'.message # input.message)
          => (CommitRejected /\ input'.mode = Normal)]_vars

\* a transaction commit was just rejected for its amount, and the message
\* says so in Idle
C32_Witness ==
    /\ last = "transaction_amount_error"
    /\ input.mode = Normal
    /\ input.message = Msg("Invalid amount format")

\* the number of menu items
MenuLen == Len(MenuItems)

LabelForm(text) ==
    [NewInput EXCEPT !.transaction_type = <<"i">>,
                     !.transaction_amount = <<"1">>,
                     !.transaction_tags = text]

\* some tags text makes add_transaction append a transaction that carries `tag`
Attachable(tag, ud) ==
    \E text \in TextsOver(LabelChars, MaxLabelsLen) :
        LET r == add_transaction(LabelForm(text), ud, 1)
        IN  /\ r.outcome = "transaction_added"
            /\ Len(r.ud.transaction) = Len(ud.transaction) + 1
            /\ \E i \in 1..Len(r.ud.transaction[Len(r.ud.transaction)].tags) :
                 r.ud.transaction[Len(r.ud.transaction)].tags[i] = tag

(* C33: every tag that has been committed can be attached to a transaction *)
(* by a tags text: for every stored tag there is a tags text with which    *)
(* the transaction commit succeeds and the new transaction carries that    *)
(* tag, also when the tag's name is empty, contains a comma, or starts or  *)
(* ends with whitespace.                                                   *)
C33_EveryLabelAttachable ==
    \A i \in 1..Len(user_data.tag) : Attachable(user_data.tag[i], user_data)

\* a tag whose name is empty or is free of commas and of whitespace at its
\* ends is attachable; every other stored tag is not
C33_AttachableNames ==
    \A i \in 1..Len(user_data.tag) :
        LET name == user_data.tag[i].name
        IN  Attachable(user_data.tag[i], user_data)
            <=> (Trim(name) = name /\ \A k \in 1..Len(name) : name[k] # ",")

\* tags named "" and "a" were committed
C33_Witness ==
    /\ last = "tag_added"
    /\ Len(user_data.tag) = 2
    /\ user_data.tag[1].name = <<>>
    /\ user_data.tag[2].name = <<"a">>

\* the words of a line read
Words(line) == SplitWhitespace(Trim(line))

(* C36: in the console program a bank command with fewer than the three    *)
(* arguments of its usage line prints the usage line and leaves the store  *)
(* unchanged; the program does not abort.                                  *)
C36_BankUsage ==
    [][\A line \in BankLines :
         (Read(line, 1) /\ Len(Words(line)) < 4)
         => /\ user_data' = user_data
            /\ ~panicked'
            /\ run_console(line, user_data, 1).out =
                   Msg("Usage: bank <name> <accountnumber> <balance>")]_vars

(* C37: in the console program a bucket command rejected because a bucket  *)
(* of its name exists leaves every collection unchanged, the banks         *)
(* included.                                                               *)
C37_BucketDuplicateKeepsStore ==
    [][\A line \in BucketLines :
         (Read(line, 1)
          /\ run_console(line, user_data, 1).outcome = "duplicate")
         => user_data' = user_data]_vars

\* the lines that submit an entity with every field supplied, each field
\* value one word
FullLines ==
    {line \in BankLines : Len(Words(line)) = 4}
    \cup {line \in BucketLines : Len(Words(line)) = 5}
    \cup {line \in TagLines : Len(Words(line)) = 4}
    \cup {line \in TxnLines : Len(Words(line)) = 5}

\* the form's slots filled in with the field values of a full line
SlotsOf(parts) ==
    CASE parts[1] = BankWord ->
            [NewInput EXCEPT !.bank_name = parts[2], !.bank_account = parts[3],
                             !.bank_balance = parts[4]]
      [] parts[1] = BucketWord ->
            [NewInput EXCEPT !.bucket_name = parts[2],
                             !.bucket_balance = parts[3],
                             !.bucket_bank_name = parts[4],
                             !.bucket_account = parts[5]]
      [] parts[1] = TagWord ->
            [NewInput EXCEPT !.tag_name = parts[2], !.tag_bucket = parts[3],
                             !.tag_description = parts[4]]
      [] parts[1] = TxnWord ->
            [NewInput EXCEPT !.transaction_type = parts[2],
                             !.transaction_amount = parts[3],
                             !.transaction_tags = parts[4],
                             !.transaction_description = parts[5]]

\* the store the form's commit validator leaves for the submission of a
\* full line
FormStore(parts, ud, timestamp) ==
    CASE parts[1] = BankWord -> add_bank(SlotsOf(parts), ud).ud
      [] parts[1] = BucketWord -> add_bucket(SlotsOf(parts), ud).ud
      [] parts[1] = TagWord -> add_tag(SlotsOf(parts), ud).ud
      [] parts[1] = TxnWord -> add_transaction(SlotsOf(parts), ud, timestamp).ud

(* C38: the console handlers and the form's commit validators implement    *)
(* the same store: from a store both have built, a submission with every   *)
(* field supplied and whitespace-free values is accepted by both or        *)
(* rejected by both, and both leave the same collections (the same clock   *)
(* reading given to both).                                                 *)
C38_ConsoleMatchesForm ==
    [][\A line \in FullLines :
         Read(line, 1)
         => LET console == run_console(line, user_data, 1)
                form == FormStore(Words(line), user_data, 1)
            IN  /\ (console.outcome = "added") <=> (form # user_data)
                /\ console.ud = form]_vars

====
